---- MODULE Spec2Model ----
(***************************************************************************)
(* A model of the statistical pipelines of the analytics package:         *)
(*   analytics/RelativePerformanceIndexAnalytics.py                        *)
(*       compute_relative_performance_index, relative_performance_index    *)
(*   analytics/EmploymentSalaryTradeoffAnalytics.py                        *)
(*       employment_salary_tradeoff                                        *)
(*                                                                         *)
(* Numbers.  The code computes in IEEE doubles; the model computes the     *)
(* same expressions exactly: a float that is a ratio of integers is a      *)
(* reduced fraction [n, d], a float that is a square root (a standard      *)
(* deviation, a z-score, a correlation) is a signed root [sgn, sq]         *)
(* standing for sgn * sqrt(sq).  NaN, +inf, -inf and Python's None are     *)
(* values of their own, so that a division by zero or a missing fillna     *)
(* shows.  Rounding error is not modelled.                                 *)
(*                                                                         *)
(* Tables.  A DataFrame is a sequence of records (row order is part of     *)
(* the value); a nullable cell is <<>> (NaN / missing) or <<v>>.           *)
(***************************************************************************)
EXTENDS Integers, Sequences, FiniteSets, TLC

(***************************************************************************)
(* Bounds of the model.                                                    *)
(***************************************************************************)
\* the largest number of rows of the input CSV
MaxRows == 3
\* the largest number of values in a direct call of _weighted_mean_std
MaxValues == 3

(***************************************************************************)
(* Nullable cells, Python None, float specials.                            *)
(***************************************************************************)
Null == <<>>
Some(v) == <<v>>
IsNull(cell) == cell = <<>>
Val(cell) == cell[1]

PyNone == [k |-> "None"]
NaN == [k |-> "nan"]
Inf(s) == [k |-> "inf", sgn |-> s]

(***************************************************************************)
(* Exact fractions.                                                        *)
(***************************************************************************)
Abs(x) == IF x < 0 THEN -x ELSE x
Sign(x) == IF x < 0 THEN -1 ELSE IF x = 0 THEN 0 ELSE 1

RECURSIVE Gcd(_, _)
Gcd(a, b) == IF b = 0 THEN a ELSE Gcd(b, a % b)

\* the fraction n/d (d # 0) in lowest terms with a positive denominator
Rat(n, d) ==
    LET g == Gcd(Abs(n), Abs(d))
        s == IF d < 0 THEN -1 ELSE 1
    IN [k |-> "num", n |-> s * (n \div g), d |-> s * (d \div g)]

RInt(i) == Rat(i, 1)
RAdd(a, b) == Rat(a.n * b.d + b.n * a.d, a.d * b.d)
RSub(a, b) == Rat(a.n * b.d - b.n * a.d, a.d * b.d)
RMul(a, b) == Rat(a.n * b.n, a.d * b.d)
RDiv(a, b) == Rat(a.n * b.d, a.d * b.n)
RSq(a) == RMul(a, a)
RLt(a, b) == a.n * b.d < b.n * a.d
RLe(a, b) == a.n * b.d <= b.n * a.d
RSign(a) == Sign(a.n)
RZero == RInt(0)

\* sum of a sequence of fractions
RECURSIVE RSum(_)
RSum(s) == IF s = <<>> THEN RZero ELSE RAdd(Head(s), RSum(Tail(s)))

\* s[i] * t[i], (s[i])^2 ... elementwise over sequences of fractions
SeqMul(s, t) == [i \in 1..Len(s) |-> RMul(s[i], t[i])]
SeqShift(s, c) == [i \in 1..Len(s) |-> RSub(s[i], c)]
SeqSq(s) == [i \in 1..Len(s) |-> RSq(s[i])]

\* ceil(a / b) for a >= 0, b > 0
CeilDiv(a, b) == (a + b - 1) \div b

(***************************************************************************)
(* Signed roots: sgn * sqrt(sq), sq a fraction >= 0.                       *)
(***************************************************************************)
Root(s, q) == [k |-> "root", sgn |-> IF q.n = 0 THEN 0 ELSE s, sq |-> q]
RootZero == Root(0, RZero)
\* np.sqrt of a fraction: NaN below zero
Sqrt(q) == IF q.n < 0 THEN NaN ELSE Root(1, q)
IsNumber(x) == x.k \in {"num", "root"}
RootLt(a, b) ==
    \/ a.sgn < b.sgn
    \/ a.sgn = 1 /\ b.sgn = 1 /\ RLt(a.sq, b.sq)
    \/ a.sgn = -1 /\ b.sgn = -1 /\ RLt(b.sq, a.sq)

\* x / r for a fraction x and a float r that is a root or NaN (IEEE division)
DivByRoot(x, r) ==
    IF r.k = "nan" THEN NaN
    ELSE IF r.sgn = 0
         THEN (IF RSign(x) = 0 THEN NaN ELSE Inf(RSign(x)))
         ELSE Root(RSign(x) * r.sgn, RDiv(RSq(x), r.sq))

(***************************************************************************)
(* Sorting (stable insertion sort by an integer key, ascending).           *)
(***************************************************************************)
RECURSIVE InsertByKey(_, _, _, _)
InsertByKey(sorted, keys, x, kx) ==
    IF sorted = <<>> THEN <<x>>
    ELSE IF Head(keys) <= kx
         THEN <<Head(sorted)>> \o InsertByKey(Tail(sorted), Tail(keys), x, kx)
         ELSE <<x>> \o sorted

RECURSIVE StableSort(_, _)
\* s sorted by the integer keys ks (Len(ks) = Len(s)), ties in input order
StableSort(s, ks) ==
    IF s = <<>> THEN <<>>
    ELSE LET n == Len(s)
             front == StableSort(SubSeq(s, 1, n - 1), SubSeq(ks, 1, n - 1))
             fkeys == StableSort(SubSeq(ks, 1, n - 1), SubSeq(ks, 1, n - 1))
         IN InsertByKey(front, fkeys, s[n], ks[n])

Range(s) == {s[i] : i \in 1..Len(s)}

\* the elements of the finite set S as a sequence, ascending by code[x]
RECURSIVE SortSetBy(_, _)
SortSetBy(S, code) ==
    IF S = {} THEN <<>>
    ELSE LET m == CHOOSE x \in S : \A y \in S : code[x] <= code[y]
         IN <<m>> \o SortSetBy(S \ {m}, code)

\* the sum of a sequence of integers
RECURSIVE IntSum(_)
IntSum(s) == IF s = <<>> THEN 0 ELSE Head(s) + IntSum(Tail(s))

(***************************************************************************)
(* The input: the CSV file read by load_data (its columns and its rows)    *)
(* and the arguments of the call.                                          *)
(***************************************************************************)
AllColumns ==
    {"year", "university", "course", "course_category",
     "employment_rate_overall", "gross_monthly_median"}

\* every string that occurs in a key column, in Python's string order
NameOrder ==
    <<"Accountancy", "Arts", "Business", "Computing", "Engineering",
      "NTU", "NUS", "Sciences">>
NameBase == Len(NameOrder) + 1
OrdOf(name) == CHOOSE i \in 1..Len(NameOrder) : NameOrder[i] = name

\* a group key (the values of the group_by columns) as one integer that
\* orders keys as pandas orders them (lexicographically)
RECURSIVE KeyCode(_)
KeyCode(key) ==
    IF key = <<>> THEN 0
    ELSE KeyCode(SubSeq(key, 1, Len(key) - 1)) * NameBase + OrdOf(key[Len(key)])

Years == {2020, 2021}
Courses == {"Accountancy", "Business", "Computing"}
Categories == {"Arts", "Engineering", "Sciences"}
Salaries == {1, 2, 3}
EmploymentRates == {1, 2}
WeightModes == {"none", "sample_size"}
MinSampleSizes == {0, 1, 2}

MkRow(y, u, c, cat, e, s) ==
    [year |-> y, university |-> u, course |-> c, course_category |-> cat,
     employment_rate_overall |-> e, gross_monthly_median |-> s]

VARIABLES
    columns,      \* the columns of the CSV file
    csv,          \* its rows
    params,       \* the arguments of the call
    request,      \* the query parameters given to an API wrapper
    pc,           \* the position in the called function
    df,           \* df: the rows after load_data / dropna
    agg,          \* agg: one row per (year, group)
    year_stats,   \* year_stats: one row per year
    out,          \* out: the normalized-score table
    missing_before,        \* employment_salary_tradeoff: nulls per column
    summary,               \* its summary table, one row per category
    correlation,           \* its Pearson correlation
    correlation_weighted,  \* its sample-size-weighted correlation
    trendline,             \* its trendline
    yearly_salary,         \* plot_salary_growth: one row per (year, university)
    growth_df,             \* its growth table
    result        \* what the call returned or raised

input == <<columns, csv, params, request>>
rpi_vars == <<agg, year_stats, out>>
tradeoff_vars ==
    <<missing_before, summary, correlation, correlation_weighted, trendline>>
growth_vars == <<yearly_salary, growth_df>>
vars == <<input, pc, df, rpi_vars, tradeoff_vars, growth_vars, result>>

Pending == [kind |-> "pending"]
\* a call made directly, not through an API wrapper
NoRequest == [api |-> "none"]
Raised(err, names) == [kind |-> "raised", error |-> err, names |-> names]

(***************************************************************************)
(* load_data of RelativePerformanceIndexAnalytics.py.  A filter on a       *)
(* column the file lacks raises KeyError naming that column.               *)
(***************************************************************************)
FilterOn(p) == ~IsNull(p) /\ Val(p) # {}
CellIn(cell, p) == ~IsNull(cell) /\ Val(cell) \in Val(p)

\* the rows a filter step works on (none after a raise)
RowsOf(st) == IF st.kind = "ok" THEN st.rows ELSE <<>>

\* one filter step of load_data: st is [kind |-> "ok", rows] or a raise,
\* kept the rows of st that pass the filter
FilterStep(st, cols, active, col, kept) ==
    IF st.kind # "ok" \/ ~active THEN st
    ELSE IF col \notin cols THEN Raised("KeyError", <<col>>)
    ELSE [kind |-> "ok", rows |-> kept]

YearFrom(rows, p) ==
    SelectSeq(rows, LAMBDA r : ~IsNull(r.year) /\ Val(r.year) >= Val(p.year_start))
YearUpTo(rows, p) ==
    SelectSeq(rows, LAMBDA r : ~IsNull(r.year) /\ Val(r.year) <= Val(p.year_end))
IsIn(rows, col, p) == SelectSeq(rows, LAMBDA r : CellIn(r[col], p))

load_data(cols, rows, p) ==
    LET s0 == [kind |-> "ok", rows |-> rows]
        s1 == FilterStep(s0, cols, ~IsNull(p.year_start), "year",
                         YearFrom(RowsOf(s0), p))
        s2 == FilterStep(s1, cols, ~IsNull(p.year_end), "year",
                         YearUpTo(RowsOf(s1), p))
        s3 == FilterStep(s2, cols, FilterOn(p.universities), "university",
                         IsIn(RowsOf(s2), "university", p.universities))
        s4 == FilterStep(s3, cols, FilterOn(p.categories), "course_category",
                         IsIn(RowsOf(s3), "course_category", p.categories))
        s5 == FilterStep(s4, cols, FilterOn(p.courses), "course",
                         IsIn(RowsOf(s4), "course", p.courses))
    IN s5

(***************************************************************************)
(* numpy / pandas primitives used by both pipelines.                       *)
(***************************************************************************)
\* np.mean(v): the mean of a sequence of fractions, NaN for an empty one
NpMean(v) == IF v = <<>> THEN NaN ELSE RDiv(RSum(v), RInt(Len(v)))

\* a faulty variant, for comparison: the sample standard deviation (ddof=1)
NpStdSample(v) ==
    IF Len(v) < 2 THEN NaN
    ELSE Sqrt(RDiv(RSum(SeqSq(SeqShift(v, NpMean(v)))), RInt(Len(v) - 1)))

\* np.std(v, ddof=0): sqrt(mean((v - mean(v))^2)), NaN for an empty one
NpStd(v) ==
    IF v = <<>> THEN NaN
    ELSE Sqrt(RDiv(RSum(SeqSq(SeqShift(v, NpMean(v)))), RInt(Len(v))))

\* df.dropna(subset=...): the rows with a value in every column of subset
DropNa(rows, subset) ==
    SelectSeq(rows, LAMBDA r : \A c \in subset : ~IsNull(r[c]))

(***************************************************************************)
(* _weighted_mean_std                                                      *)
(***************************************************************************)
\* a faulty variant, for comparison: the weighted variance divided by the
\* number of values
WeightedMeanStdDivLen(v, w) ==
    LET w_sum == RSum(w)
    IN IF RLe(w_sum, RZero)
       THEN [mean |-> NpMean(v), std |-> NpStd(v)]
       ELSE LET mean == RDiv(RSum(SeqMul(w, v)), w_sum)
                var == RDiv(RSum(SeqMul(w, SeqSq(SeqShift(v, mean)))),
                            RInt(Len(v)))
            IN [mean |-> mean, std |-> Sqrt(var)]

_weighted_mean_std(v, w) ==
    LET w_sum == RSum(w)
    IN IF RLe(w_sum, RZero)
       THEN [mean |-> NpMean(v), std |-> NpStd(v)]
       ELSE LET mean == RDiv(RSum(SeqMul(w, v)), w_sum)
                var == RDiv(RSum(SeqMul(w, SeqSq(SeqShift(v, mean)))), w_sum)
            IN [mean |-> mean, std |-> Sqrt(var)]

(***************************************************************************)
(* compute_relative_performance_index, step by step.                       *)
(***************************************************************************)
\* zscore_floor_std = 1e-9, as the integer 1 / zscore_floor_std
ZscoreFloorStdInverse == 1000000000

\* lines 82-83: the required columns the file lacks, in the order asked
MissingRequired(cols, p) ==
    SelectSeq(<<"year", p.salary_column>> \o p.group_by,
              LAMBDA c : c \notin cols)

\* lines 87-91: rows with a year, a salary and every group key
RpiDropNa(rows, p) ==
    DropNa(rows, {"year", p.salary_column} \cup Range(p.group_by))

GroupKey(r, group_by) == [i \in 1..Len(group_by) |-> Val(r[group_by[i]])]

\* lines 93-100: groupby(["year", *group_by]).agg(mean, count), one row per
\* group in the order of the keys.  (The course_category column of lines
\* 102-108 is a label no statistic reads; the model leaves it out.)
RpiGroupBy(rows, p) ==
    LET keys == {[year |-> Val(r.year), key |-> GroupKey(r, p.group_by)] :
                    r \in Range(rows)}
        code == [g \in keys |-> g.year * (NameBase * NameBase) + KeyCode(g.key)]
        Members(g) ==
            SelectSeq(rows, LAMBDA r : Val(r.year) = g.year
                                       /\ GroupKey(r, p.group_by) = g.key)
        Salaries_(g) ==
            LET m == Members(g)
            IN [i \in 1..Len(m) |-> RInt(Val(m[i][p.salary_column]))]
        order == SortSetBy(keys, code)
    IN [i \in 1..Len(order) |->
          [year |-> order[i].year, key |-> order[i].key,
           mean_salary |-> NpMean(Salaries_(order[i])),
           sample_size |-> Len(Members(order[i]))]]

\* a faulty variant, for comparison: no group is removed
MinSampleFilterNone(groups, min_sample_size) == groups

\* lines 110-111: the minimum sample size filter
MinSampleFilter(groups, min_sample_size) ==
    IF min_sample_size > 0
    THEN SelectSeq(groups, LAMBDA g : g.sample_size >= min_sample_size)
    ELSE groups

\* line 113: sorted(agg["year"].unique())
YearsOf(groups) ==
    LET ys == {groups[i].year : i \in 1..Len(groups)}
    IN SortSetBy(ys, [y \in ys |-> y])

\* lines 116-123: the baseline of one year
YearBaseline(groups, y, weight_mode) ==
    LET sub == SelectSeq(groups, LAMBDA g : g.year = y)
        vals == [i \in 1..Len(sub) |-> sub[i].mean_salary]
        w == [i \in 1..Len(sub) |-> RInt(sub[i].sample_size)]
        ms == IF weight_mode = "sample_size"
              THEN _weighted_mean_std(vals, w)
              ELSE [mean |-> NpMean(vals), std |-> NpStd(vals)]
    IN [year |-> y, year_mean |-> ms.mean, year_std |-> ms.std,
        n_groups |-> Len(sub), weight_mode |-> weight_mode]

\* lines 113-134
YearStats(groups, weight_mode) ==
    LET ys == YearsOf(groups)
    IN [i \in 1..Len(ys) |-> YearBaseline(groups, ys[i], weight_mode)]

\* line 138: year_std.where(year_std >= zscore_floor_std, nan)
\* sqrt(n/d) >= 1/F  iff  n >= ceil(d / F^2)
StdSafe(std) ==
    IF std.k = "root"
       /\ std.sq.n >= CeilDiv(CeilDiv(std.sq.d, ZscoreFloorStdInverse),
                              ZscoreFloorStdInverse)
    THEN std
    ELSE NaN

\* a faulty variant, for comparison: no fillna
FillNaSkipped(x) == x

\* line 140: fillna(0.0)
FillNa0(x) == IF x.k = "nan" THEN RootZero ELSE x

\* lines 139-140
ZScore(mean_salary, year_mean, year_std_safe) ==
    FillNa0(IF year_mean.k = "nan" THEN NaN
            ELSE DivByRoot(RSub(mean_salary, year_mean), year_std_safe))

\* a faulty variant, for comparison: every group normalized with the baseline of the
\* first year
NormalizeFirstBaseline(groups, stats) ==
    [i \in 1..Len(groups) |->
        LET g == groups[i]
            b == stats[1]
            safe == StdSafe(b.year_std)
        IN [year |-> g.year, key |-> g.key, mean_salary |-> g.mean_salary,
            sample_size |-> g.sample_size, year_mean |-> b.year_mean,
            year_std |-> b.year_std, n_groups |-> b.n_groups,
            year_std_safe |-> safe,
            z_score |-> ZScore(g.mean_salary, b.year_mean, safe)]]

\* lines 135-140: merge the baselines into agg and normalize
Normalize(groups, stats) ==
    [i \in 1..Len(groups) |->
        LET g == groups[i]
            b == CHOOSE b \in Range(stats) : b.year = g.year
            safe == StdSafe(b.year_std)
        IN [year |-> g.year, key |-> g.key, mean_salary |-> g.mean_salary,
            sample_size |-> g.sample_size, year_mean |-> b.year_mean,
            year_std |-> b.year_std, n_groups |-> b.n_groups,
            year_std_safe |-> safe,
            z_score |-> ZScore(g.mean_salary, b.year_mean, safe)]]

\* the order of floats that are numbers or infinities
ZLt(a, b) ==
    IF a.k = "inf" THEN a.sgn = -1 /\ ~(b.k = "inf" /\ b.sgn = -1)
    ELSE IF b.k = "inf" THEN b.sgn = 1
    ELSE RootLt(a, b)

\* a faulty variant, for comparison: rank(method="min", ascending=False)
MinRankDesc(rows, i) ==
    1 + Cardinality({j \in 1..Len(rows) :
                        rows[j].year = rows[i].year
                        /\ ZLt(rows[i].z_score, rows[j].z_score)})

\* a faulty variant, for comparison: the dense rank taken over the groups of all years
DenseRankAcrossYears(rows, i) ==
    1 + Cardinality({rows[j].z_score : j \in
                        {j \in 1..Len(rows) :
                            ZLt(rows[i].z_score, rows[j].z_score)}})

\* a faulty variant, for comparison: the dense rank in ascending order
DenseRankAsc(rows, i) ==
    1 + Cardinality({rows[j].z_score : j \in
                        {j \in 1..Len(rows) :
                            rows[j].year = rows[i].year
                            /\ ZLt(rows[j].z_score, rows[i].z_score)}})

\* lines 142-146: groupby("year").rank(method="dense", ascending=False)
DenseRankDesc(rows, i) ==
    1 + Cardinality({rows[j].z_score : j \in
                        {j \in 1..Len(rows) :
                            rows[j].year = rows[i].year
                            /\ ZLt(rows[i].z_score, rows[j].z_score)}})

\* a faulty variant, for comparison: rank(method="min", ascending=True, pct=True) * 100
PercentileMin(rows, i) ==
    LET same == {j \in 1..Len(rows) : rows[j].year = rows[i].year}
        less == {j \in same : ZLt(rows[j].z_score, rows[i].z_score)}
    IN Rat(100 * (Cardinality(less) + 1), Cardinality(same))

\* a faulty variant, for comparison: the average rank taken in descending order
PercentileDesc(rows, i) ==
    LET same == {j \in 1..Len(rows) : rows[j].year = rows[i].year}
        more == {j \in same : ZLt(rows[i].z_score, rows[j].z_score)}
        ties == {j \in same : rows[j].z_score = rows[i].z_score}
    IN Rat(100 * (2 * Cardinality(more) + Cardinality(ties) + 1),
           2 * Cardinality(same))

\* lines 147-150: groupby("year").rank(method="average", pct=True) * 100:
\* the mean of the positions less+1 .. less+ties, over the group count
Percentile(rows, i) ==
    LET same == {j \in 1..Len(rows) : rows[j].year = rows[i].year}
        less == {j \in same : ZLt(rows[j].z_score, rows[i].z_score)}
        ties == {j \in same : rows[j].z_score = rows[i].z_score}
    IN Rat(100 * (2 * Cardinality(less) + Cardinality(ties) + 1),
           2 * Cardinality(same))

\* lines 142-150
Ranked(rows) ==
    [i \in 1..Len(rows) |->
        [year |-> rows[i].year, key |-> rows[i].key,
         mean_salary |-> rows[i].mean_salary,
         sample_size |-> rows[i].sample_size,
         year_mean |-> rows[i].year_mean, year_std |-> rows[i].year_std,
         n_groups |-> rows[i].n_groups,
         year_std_safe |-> rows[i].year_std_safe,
         z_score |-> rows[i].z_score,
         rank |-> DenseRankDesc(rows, i),
         percentile |-> Percentile(rows, i)]]

\* a faulty variant, for comparison: the table left in the order of the group keys
SortYearRankSkipped(rows) == rows

\* line 163: sort_values(["year", "rank"]), stable
SortYearRank(rows) ==
    StableSort(rows, [i \in 1..Len(rows) |->
                        rows[i].year * (MaxRows + 2) + rows[i].rank])

\* lines 152-160
RpiMeta(rows, table, p) ==
    LET ys == YearsOf(table)
    IN [rows_used |-> Len(rows), groups_used |-> Len(table),
        years |-> [min |-> IF ys = <<>> THEN Null ELSE Some(ys[1]),
                   max |-> IF ys = <<>> THEN Null ELSE Some(ys[Len(ys)])],
        salary_column |-> p.salary_column, group_by |-> p.group_by,
        min_sample_size |-> p.min_sample_size, weight_mode |-> p.weight_mode]

(***************************************************************************)
(* relative_performance_index, lines 308-318: the courses that get a       *)
(* slope row (present in >= 2 distinct years).  The slope itself, a        *)
(* difference of roots, is not represented; no property reads it.          *)
(***************************************************************************)
SlopeRows(table) ==
    LET courses == {table[i].key[1] : i \in 1..Len(table)}
        YearsPresent(c) == {table[i].year : i \in
                               {i \in 1..Len(table) : table[i].key[1] = c}}
    IN {[course |-> c, years |-> Cardinality(YearsPresent(c))] :
           c \in {c \in courses : Cardinality(YearsPresent(c)) >= 2}}

(***************************************************************************)
(* select_focus_groups and build_bump_chart_data.  group_col is "course":  *)
(* the group of a table row is the first (and only) part of its key.       *)
(***************************************************************************)
GroupOf(row) == row.key[1]
GroupsIn(table) == {GroupOf(table[i]) : i \in 1..Len(table)}
RowsOfGroup(table, g) == SelectSeq(table, LAMBDA r : GroupOf(r) = g)
\* ("year", "nunique") of a group
YearsPresent(table, g) ==
    Cardinality({r.year : r \in Range(RowsOfGroup(table, g))})

\* the value of a z-score as a fraction.  Only z-scores that are rational
\* (roots of squares of fractions) have one; the mean of other z-scores is
\* outside what the model represents, and evaluating it stops the run.
IntRoot(n) == CHOOSE r \in 0..n : r * r = n
RootToRat(z) == Rat(z.sgn * IntRoot(z.sq.n), IntRoot(z.sq.d))
\* ("z_score", "mean") of a group
MeanZ(table, g) ==
    LET rows == RowsOfGroup(table, g)
    IN NpMean([i \in 1..Len(rows) |-> RootToRat(rows[i].z_score)])

\* DataFrame.head(n): the first n rows, all but the last -n for n < 0
HeadRows(rows, n) ==
    LET k == IF n >= 0 THEN n ELSE Len(rows) + n
    IN IF k <= 0 THEN <<>>
       ELSE SubSeq(rows, 1, IF k < Len(rows) THEN k ELSE Len(rows))

\* line 185: sort_values(["avg_z", "years"], ascending=[False, False]),
\* rows equal in both keys in their given order
SortByAvgZYears(g) ==
    StableSort(g, [i \in 1..Len(g) |->
        Cardinality({j \in 1..Len(g) :
            \/ RLt(g[i].avg_z, g[j].avg_z)
            \/ g[i].avg_z = g[j].avg_z /\ g[i].years < g[j].years})])

\* a faulty variant, for comparison: the min_years filter left out
SelectFocusGroupsAnyYears(table, top_k, min_years, focus) ==
    IF ~IsNull(focus) /\ Val(focus) # <<>>
    THEN SelectSeq(Val(focus), LAMBDA g : g \in GroupsIn(table))
    ELSE LET present == GroupsIn(table)
             names == SortSetBy(present, [c \in present |-> OrdOf(c)])
             g == [i \in 1..Len(names) |->
                     [course |-> names[i],
                      avg_z |-> MeanZ(table, names[i]),
                      years |-> YearsPresent(table, names[i])]]
             top == HeadRows(SortByAvgZYears(g), top_k)
         IN [i \in 1..Len(top) |-> top[i].course]

\* a faulty variant, for comparison: every name of the focus list returned
SelectFocusGroupsUnfiltered(table, top_k, min_years, focus) ==
    IF ~IsNull(focus) /\ Val(focus) # <<>>
    THEN Val(focus)
    ELSE <<>>

\* lines 169-186.  groupby lists the groups by name; the mean z-score is
\* taken for the groups that pass the years filter (the others are dropped
\* whatever their mean).
select_focus_groups(table, top_k, min_years, focus) ==
    IF ~IsNull(focus) /\ Val(focus) # <<>>
    THEN SelectSeq(Val(focus), LAMBDA g : g \in GroupsIn(table))
    ELSE LET present == GroupsIn(table)
             names == SortSetBy(present, [c \in present |-> OrdOf(c)])
             enough == SelectSeq(names, LAMBDA c :
                                    YearsPresent(table, c) >= min_years)
             g == [i \in 1..Len(enough) |->
                     [course |-> enough[i],
                      avg_z |-> MeanZ(table, enough[i]),
                      years |-> YearsPresent(table, enough[i])]]
             top == HeadRows(SortByAvgZYears(g), top_k)
         IN [i \in 1..Len(top) |-> top[i].course]

\* lines 189-205
build_bump_chart_data(table, focus_groups, top_k, min_years) ==
    LET focus == select_focus_groups(table, top_k, min_years, focus_groups)
        bump == SelectSeq(table, LAMBDA r : GroupOf(r) \in Range(focus))
        sorted == StableSort(bump, [i \in 1..Len(bump) |->
                     (bump[i].year * (MaxRows + 2) + bump[i].rank) * NameBase
                     + OrdOf(GroupOf(bump[i]))])
    IN [i \in 1..Len(sorted) |->
          [course |-> GroupOf(sorted[i]), year |-> sorted[i].year,
           rank |-> sorted[i].rank, z_score |-> sorted[i].z_score,
           mean_salary |-> sorted[i].mean_salary,
           sample_size |-> sorted[i].sample_size]]

(***************************************************************************)
(* The calls.                                                              *)
(***************************************************************************)
\* the arguments a call leaves at their defaults
DefaultParams(fn) ==
    [fn |-> fn, year_start |-> Null, year_end |-> Null,
     universities |-> Null, categories |-> Null, courses |-> Null,
     salary_column |-> "gross_monthly_median", group_by |-> <<"course">>,
     min_sample_size |-> IF fn = "employment_salary_tradeoff" THEN 20 ELSE 1,
     weight_mode |-> "none", top_n |-> 5, add_trendline |-> TRUE,
     focus_courses |-> Null, top_k |-> 10, min_years |-> 6]

RowCode(r) ==
    LET y == IF IsNull(r.year) THEN 0 ELSE Val(r.year) - 2019
        u == IF IsNull(r.university) THEN 0 ELSE OrdOf(Val(r.university))
        c == IF IsNull(r.course) THEN 0 ELSE OrdOf(Val(r.course))
        g == IF IsNull(r.course_category) THEN 0
             ELSE OrdOf(Val(r.course_category))
        e == IF IsNull(r.employment_rate_overall) THEN 0
             ELSE Val(r.employment_rate_overall)
        m == IF IsNull(r.gross_monthly_median) THEN 0
             ELSE Val(r.gross_monthly_median)
    IN ((((y * 9 + u) * 9 + c) * 9 + g) * 9 + e) * 9 + m

\* the non-decreasing sequences of length n over 1..k
RECURSIVE NonDecreasing(_, _)
NonDecreasing(n, k) ==
    IF n = 0 THEN {<<>>}
    ELSE UNION {{Append(s, j) : s \in NonDecreasing(n - 1, j)} : j \in 1..k}

\* the files of at most MaxRows rows over a set of rows; results do not
\* depend on the order of the rows of the file (groupby sorts by key), so
\* one order stands for all
FilesOver(rows) ==
    UNION {{[i \in 1..n |-> rows[f[i]]] : f \in NonDecreasing(n, Len(rows))} :
           n \in 0..MaxRows}
Files(domain) == FilesOver(SortSetBy(domain, [r \in domain |-> RowCode(r)]))

CategoryOf(course) ==
    CASE course = "Accountancy" -> "Arts"
      [] course = "Business" -> "Arts"
      [] OTHER -> "Sciences"

\* rows of the relative performance runs: year, course and salary vary
RpiRows ==
    {MkRow(Some(y), Some("NUS"), Some(c), Some(CategoryOf(c)), Some(1), s) :
        y \in Years, c \in Courses,
        s \in {Null} \cup {Some(v) : v \in Salaries}}

InitCommon ==
    /\ request = NoRequest
    /\ df = <<>>
    /\ agg = <<>>
    /\ year_stats = <<>>
    /\ out = <<>>
    /\ missing_before = <<>>
    /\ summary = <<>>
    /\ correlation = Pending
    /\ correlation_weighted = Pending
    /\ trendline = Pending
    /\ yearly_salary = <<>>
    /\ growth_df = <<>>
    /\ result = Pending

InitRPI ==
    /\ columns = AllColumns
    /\ csv \in Files(RpiRows)
    /\ \E m \in MinSampleSizes, w \in WeightModes :
          params = [DefaultParams("relative_performance_index")
                       EXCEPT !.min_sample_size = m, !.weight_mode = w]
    /\ pc = "rpi_load_data"
    /\ InitCommon

\* line 80
RpiLoadData ==
    /\ pc = "rpi_load_data"
    /\ LET r == load_data(columns, csv, params)
       IN IF r.kind = "raised"
          THEN pc' = "raised" /\ result' = r /\ df' = df
          ELSE pc' = "rpi_check_required" /\ df' = r.rows /\ result' = result
    /\ UNCHANGED <<growth_vars, input, rpi_vars, tradeoff_vars>>

\* lines 82-85
RpiCheckRequired ==
    /\ pc = "rpi_check_required"
    /\ LET missing_required == MissingRequired(columns, params)
       IN IF missing_required # <<>>
          THEN pc' = "raised"
               /\ result' = Raised("ValueError", missing_required)
          ELSE pc' = "rpi_aggregate" /\ result' = result
    /\ UNCHANGED <<growth_vars, input, df, rpi_vars, tradeoff_vars>>

\* lines 87-111
RpiAggregate ==
    /\ pc = "rpi_aggregate"
    /\ df' = RpiDropNa(df, params)
    /\ agg' = MinSampleFilter(RpiGroupBy(df', params), params.min_sample_size)
    /\ pc' = "rpi_year_stats"
    /\ UNCHANGED <<growth_vars, input, year_stats, out, tradeoff_vars, result>>

\* lines 113-134
RpiYearStats ==
    /\ pc = "rpi_year_stats"
    /\ year_stats' = YearStats(agg, params.weight_mode)
    /\ pc' = "rpi_normalize"
    /\ UNCHANGED <<growth_vars, input, df, agg, out, tradeoff_vars, result>>

\* lines 134-140.  pd.DataFrame([]) has no columns: selecting
\* ["year", "year_mean", "year_std", "n_groups"] from it raises KeyError.
RpiNormalize ==
    /\ pc = "rpi_normalize"
    /\ IF year_stats = <<>>
       THEN pc' = "raised" /\ out' = out
            /\ result' = Raised("KeyError",
                            <<"year", "year_mean", "year_std", "n_groups">>)
       ELSE pc' = "rpi_rank" /\ out' = Normalize(agg, year_stats)
            /\ result' = result
    /\ UNCHANGED <<growth_vars, input, df, agg, year_stats, tradeoff_vars>>

\* lines 142-150.  A NaN z_score has a NaN rank, which astype(int) rejects.
RpiRank ==
    /\ pc = "rpi_rank"
    /\ IF \E i \in 1..Len(out) : out[i].z_score.k = "nan"
       THEN pc' = "raised" /\ out' = out
            /\ result' = Raised("IntCastingNaNError", <<"rank">>)
       ELSE pc' = "rpi_return" /\ out' = Ranked(out) /\ result' = result
    /\ UNCHANGED <<growth_vars, input, df, agg, year_stats, tradeoff_vars>>

\* lines 152-166
RpiReturn ==
    /\ pc = "rpi_return"
    /\ result' = [kind |-> "ok", table |-> SortYearRank(out),
                  year_stats |-> year_stats,
                  meta |-> RpiMeta(df, out, params)]
    /\ pc' = IF params.fn = "relative_performance_index"
             THEN "rpi_slopes" ELSE "done"
    /\ UNCHANGED <<growth_vars, input, df, rpi_vars, tradeoff_vars>>

\* line 325: the meta of compute_relative_performance_index and the focus
\* arguments
RelativeMeta(meta, p) ==
    [rows_used |-> meta.rows_used, groups_used |-> meta.groups_used,
     years |-> meta.years, salary_column |-> meta.salary_column,
     group_by |-> meta.group_by, min_sample_size |-> meta.min_sample_size,
     weight_mode |-> meta.weight_mode, focus_courses |-> p.focus_courses,
     top_k |-> p.top_k, min_years |-> p.min_years]

\* relative_performance_index, lines 289-327.  pd.DataFrame([]) has no
\* column z_score_slope_per_year: sort_values on it raises KeyError.
RpiSlopes ==
    /\ pc = "rpi_slopes"
    /\ LET slopes == SlopeRows(result.table)
       IN IF slopes = {}
          THEN pc' = "raised"
               /\ result' = Raised("KeyError", <<"z_score_slope_per_year">>)
          ELSE pc' = "done"
               /\ result' =
                     [kind |-> "ok", table |-> result.table,
                      year_stats |-> result.year_stats,
                      bump_data |->
                          build_bump_chart_data(result.table,
                              params.focus_courses, params.top_k,
                              params.min_years),
                      slopes |-> slopes,
                      meta |-> RelativeMeta(result.meta, params)]
    /\ UNCHANGED <<growth_vars, input, df, rpi_vars, tradeoff_vars>>

NextRPI ==
    \/ RpiLoadData
    \/ RpiCheckRequired
    \/ RpiAggregate
    \/ RpiYearStats
    \/ RpiNormalize
    \/ RpiRank
    \/ RpiReturn
    \/ RpiSlopes

SpecRPI == InitRPI /\ [][NextRPI]_vars

(***************************************************************************)
(* compute_relative_performance_index called directly, on files whose      *)
(* rows all carry a salary.                                                *)
(***************************************************************************)
IndexRows ==
    {MkRow(Some(y), Some("NUS"), Some(c), Some(CategoryOf(c)), Some(1), Some(v)) :
        y \in Years, c \in Courses, v \in Salaries}

InitIndex ==
    /\ columns = AllColumns
    /\ csv \in Files(IndexRows)
    /\ \E m \in {1, 2}, w \in WeightModes :
          params = [DefaultParams("compute_relative_performance_index")
                       EXCEPT !.min_sample_size = m, !.weight_mode = w]
    /\ pc = "rpi_load_data"
    /\ InitCommon

NextIndex ==
    \/ RpiLoadData
    \/ RpiCheckRequired
    \/ RpiAggregate
    \/ RpiYearStats
    \/ RpiNormalize
    \/ RpiRank
    \/ RpiReturn

SpecIndex == InitIndex /\ [][NextIndex]_vars

(***************************************************************************)
(* employment_salary_tradeoff, step by step.                               *)
(***************************************************************************)
\* load_data of EmploymentSalaryTradeoffAnalytics.py
tradeoff_load_data(cols, rows, p) ==
    LET s0 == [kind |-> "ok", rows |-> rows]
        s1 == FilterStep(s0, cols, ~IsNull(p.year_start), "year",
                         YearFrom(RowsOf(s0), p))
        s2 == FilterStep(s1, cols, ~IsNull(p.year_end), "year",
                         YearUpTo(RowsOf(s1), p))
        s3 == FilterStep(s2, cols, FilterOn(p.categories), "course_category",
                         IsIn(RowsOf(s2), "course_category", p.categories))
    IN s3

\* line 157
RequiredCols ==
    <<"employment_rate_overall", "gross_monthly_median", "course_category",
      "year">>

\* line 158: df[required_cols] names every required column the file lacks
MissingRequiredCols(cols) == SelectSeq(RequiredCols, LAMBDA c : c \notin cols)

\* line 158: isna().sum().to_dict()
MissingBefore(rows) ==
    [c \in Range(RequiredCols) |->
        Cardinality({i \in 1..Len(rows) : IsNull(rows[i][c])})]

\* line 159
TradeoffDropNa(rows) ==
    DropNa(rows, {"employment_rate_overall", "gross_monthly_median",
                  "course_category"})

\* pandas "std" of a group: the sample standard deviation (ddof = 1), NaN
\* for a single value
PandasStd(v) ==
    IF Len(v) < 2 THEN NaN
    ELSE Sqrt(RDiv(RSum(SeqSq(SeqShift(v, NpMean(v)))), RInt(Len(v) - 1)))

\* lines 161-170: groupby("course_category").agg(...), in the order of the
\* category names; sample_size counts the non-null course cells
TradeoffGroupBy(rows) ==
    LET cats == {Val(r.course_category) : r \in Range(rows)}
        order == SortSetBy(cats, [c \in cats |-> OrdOf(c)])
        Members(c) == SelectSeq(rows, LAMBDA r : Val(r.course_category) = c)
        Column(m, col) == [i \in 1..Len(m) |-> RInt(Val(m[i][col]))]
    IN [i \in 1..Len(order) |->
          LET m == Members(order[i])
              e == Column(m, "employment_rate_overall")
              g == Column(m, "gross_monthly_median")
          IN [course_category |-> order[i],
              avg_employment_rate |-> NpMean(e),
              avg_median_salary |-> NpMean(g),
              employment_rate_std |-> PandasStd(e),
              median_salary_std |-> PandasStd(g),
              sample_size |->
                  Cardinality({j \in 1..Len(m) : ~IsNull(m[j].course)})]]

\* sort_values(col, ascending=False) and nlargest(n, col): descending by the
\* fraction vals[i], rows with equal values in their given order
SortDesc(rows, vals) ==
    StableSort(rows, [i \in 1..Len(rows) |->
        Cardinality({j \in 1..Len(rows) : RLt(vals[i], vals[j])})])
SortAsc(rows, vals) ==
    StableSort(rows, [i \in 1..Len(rows) |->
        Cardinality({j \in 1..Len(rows) : RLt(vals[j], vals[i])})])
Take(rows, n) ==
    IF n <= 0 THEN <<>>
    ELSE SubSeq(rows, 1, IF n < Len(rows) THEN n ELSE Len(rows))

\* lines 172-175
SummaryTable(rows, min_sample_size) ==
    LET kept == MinSampleFilter(TradeoffGroupBy(rows), min_sample_size)
    IN SortDesc(kept, [i \in 1..Len(kept) |-> kept[i].avg_median_salary])

XCol(t) == [i \in 1..Len(t) |-> t[i].avg_employment_rate]
YCol(t) == [i \in 1..Len(t) |-> t[i].avg_median_salary]
WCol(t) == [i \in 1..Len(t) |-> RInt(t[i].sample_size)]

\* DataFrame.corr(): the Pearson coefficient, NaN when a variance is zero
PandasCorr(x, y) ==
    LET dx == SeqShift(x, NpMean(x))
        dy == SeqShift(y, NpMean(y))
        sxy == RSum(SeqMul(dx, dy))
        sxx == RSum(SeqSq(dx))
        syy == RSum(SeqSq(dy))
    IN IF sxx.n = 0 \/ syy.n = 0 THEN NaN
       ELSE Root(RSign(sxy), RDiv(RSq(sxy), RMul(sxx, syy)))

\* lines 178-181
Correlation(t) ==
    IF Len(t) >= 2 THEN PandasCorr(XCol(t), YCol(t)) ELSE PyNone

\* a faulty variant, for comparison: the weighted means taken without the weights
WeightedCorrelationPlainMeans(t) ==
    IF Len(t) >= 2
    THEN LET w == WCol(t)
             xw == XCol(t)
             yw == YCol(t)
             w_sum == RSum(w)
         IN IF RLt(RZero, w_sum)
            THEN LET dx == SeqShift(xw, NpMean(xw))
                     dy == SeqShift(yw, NpMean(yw))
                     cov == RDiv(RSum(SeqMul(w, SeqMul(dx, dy))), w_sum)
                     var_x == RDiv(RSum(SeqMul(w, SeqSq(dx))), w_sum)
                     var_y == RDiv(RSum(SeqMul(w, SeqSq(dy))), w_sum)
                 IN IF RLt(RZero, var_x) /\ RLt(RZero, var_y)
                    THEN Root(RSign(cov), RDiv(RSq(cov), RMul(var_x, var_y)))
                    ELSE PyNone
            ELSE PyNone
    ELSE PyNone

\* a faulty variant, for comparison: the weighted covariance not divided by the sum of weights
WeightedCorrelationRawCov(t) ==
    IF Len(t) >= 2
    THEN LET w == WCol(t)
             xw == XCol(t)
             yw == YCol(t)
             w_sum == RSum(w)
         IN IF RLt(RZero, w_sum)
            THEN LET dx == SeqShift(xw, RDiv(RSum(SeqMul(w, xw)), w_sum))
                     dy == SeqShift(yw, RDiv(RSum(SeqMul(w, yw)), w_sum))
                     cov == RSum(SeqMul(w, SeqMul(dx, dy)))
                     var_x == RDiv(RSum(SeqMul(w, SeqSq(dx))), w_sum)
                     var_y == RDiv(RSum(SeqMul(w, SeqSq(dy))), w_sum)
                 IN IF RLt(RZero, var_x) /\ RLt(RZero, var_y)
                    THEN Root(RSign(cov), RDiv(RSq(cov), RMul(var_x, var_y)))
                    ELSE PyNone
            ELSE PyNone
    ELSE PyNone

\* lines 183-199
WeightedCorrelation(t) ==
    IF Len(t) >= 2
    THEN LET w == WCol(t)
             xw == XCol(t)
             yw == YCol(t)
             w_sum == RSum(w)
         IN IF RLt(RZero, w_sum)
            THEN LET x_mean == RDiv(RSum(SeqMul(w, xw)), w_sum)
                     y_mean == RDiv(RSum(SeqMul(w, yw)), w_sum)
                     dx == SeqShift(xw, x_mean)
                     dy == SeqShift(yw, y_mean)
                     cov == RDiv(RSum(SeqMul(w, SeqMul(dx, dy))), w_sum)
                     var_x == RDiv(RSum(SeqMul(w, SeqSq(dx))), w_sum)
                     var_y == RDiv(RSum(SeqMul(w, SeqSq(dy))), w_sum)
                 IN IF RLt(RZero, var_x) /\ RLt(RZero, var_y)
                    THEN Root(RSign(cov), RDiv(RSq(cov), RMul(var_x, var_y)))
                    ELSE PyNone
            ELSE PyNone
    ELSE PyNone

\* Series.median(): the middle value, or the mean of the two middle values
Median(v) ==
    LET sorted == SortAsc(v, v)
        n == Len(v)
    IN IF n % 2 = 1 THEN sorted[(n + 1) \div 2]
       ELSE RDiv(RAdd(sorted[n \div 2], sorted[n \div 2 + 1]), RInt(2))

\* a faulty variant, for comparison: High only strictly above the median
LevelStrict(value, median) == IF RLt(median, value) THEN "High" ELSE "Low"

\* lines 205-206: np.where(value >= median, "High", "Low")
Level(value, median) == IF RLe(median, value) THEN "High" ELSE "Low"

\* lines 201-213: the summary with its quadrant columns (the quadrant text
\* "<s> Salary / <e> Employment" is the pair <<s, e>>)
Quadrants(t) ==
    IF Len(t) > 0
    THEN LET salary_median == Median(YCol(t))
             employment_median == Median(XCol(t))
         IN [i \in 1..Len(t) |->
               LET s == Level(t[i].avg_median_salary, salary_median)
                   e == Level(t[i].avg_employment_rate, employment_median)
               IN [course_category |-> t[i].course_category,
                   avg_employment_rate |-> t[i].avg_employment_rate,
                   avg_median_salary |-> t[i].avg_median_salary,
                   employment_rate_std |-> t[i].employment_rate_std,
                   median_salary_std |-> t[i].median_salary_std,
                   sample_size |-> t[i].sample_size,
                   salary_level |-> s, employment_level |-> e,
                   quadrant |-> <<s, e>>]]
    ELSE t

\* np.polyfit(x, y, 1): the least-squares line; when all x are equal the
\* system has rank 1 and lstsq returns its minimum-norm solution on the
\* columns scaled to unit length, slope = mean(y) / (2 x), intercept =
\* mean(y) / 2
PolyFit(x, y) ==
    LET mx == NpMean(x)
        my == NpMean(y)
        dx == SeqShift(x, mx)
        sxx == RSum(SeqSq(dx))
        sxy == RSum(SeqMul(dx, SeqShift(y, my)))
    IN IF sxx.n # 0
       THEN LET slope == RDiv(sxy, sxx)
            IN [slope |-> slope, intercept |-> RSub(my, RMul(slope, mx))]
       ELSE [slope |-> RDiv(my, RMul(RInt(2), mx)),
             intercept |-> RDiv(my, RInt(2))]

\* slope * x + intercept, elementwise
FitLine(fit, x) ==
    [i \in 1..Len(x) |-> RAdd(RMul(fit.slope, x[i]), fit.intercept)]

\* a faulty variant, for comparison: r2 = 0 when all salaries are equal
TrendlineZero(t, add_trendline) ==
    IF add_trendline /\ Len(t) >= 2
    THEN LET x == XCol(t)
             y == YCol(t)
             fit == PolyFit(x, y)
             y_hat == FitLine(fit, x)
             ss_res == RSum(SeqSq([i \in 1..Len(y) |-> RSub(y[i], y_hat[i])]))
             ss_tot == RSum(SeqSq(SeqShift(y, NpMean(y))))
         IN [k |-> "fit", slope |-> fit.slope, intercept |-> fit.intercept,
             r2 |-> IF ss_tot.n # 0
                    THEN RSub(RInt(1), RDiv(ss_res, ss_tot))
                    ELSE RZero]
    ELSE PyNone

\* lines 272-281
Trendline(t, add_trendline) ==
    IF add_trendline /\ Len(t) >= 2
    THEN LET x == XCol(t)
             y == YCol(t)
             fit == PolyFit(x, y)
             y_hat == FitLine(fit, x)
             ss_res == RSum(SeqSq([i \in 1..Len(y) |-> RSub(y[i], y_hat[i])]))
             ss_tot == RSum(SeqSq(SeqShift(y, NpMean(y))))
         IN [k |-> "fit", slope |-> fit.slope, intercept |-> fit.intercept,
             r2 |-> IF ss_tot.n # 0
                    THEN RSub(RInt(1), RDiv(ss_res, ss_tot))
                    ELSE PyNone]
    ELSE PyNone

\* lines 355-360: the summary with the residual of every group
WithResiduals(t) ==
    LET x == XCol(t)
        y == YCol(t)
        y_hat == FitLine(PolyFit(x, y), x)
    IN [i \in 1..Len(t) |->
          [course_category |-> t[i].course_category,
           avg_employment_rate |-> t[i].avg_employment_rate,
           avg_median_salary |-> t[i].avg_median_salary,
           employment_rate_std |-> t[i].employment_rate_std,
           median_salary_std |-> t[i].median_salary_std,
           sample_size |-> t[i].sample_size,
           salary_level |-> t[i].salary_level,
           employment_level |-> t[i].employment_level,
           quadrant |-> t[i].quadrant,
           salary_residual |-> RSub(y[i], y_hat[i])]]

\* lines 349-365
Rankings(t, top_n) ==
    LET base == [top_salary |-> Take(SortDesc(t, YCol(t)), top_n),
                 top_employment |-> Take(SortDesc(t, XCol(t)), top_n)]
    IN IF Len(t) >= 2
       THEN LET r == WithResiduals(t)
                res == [i \in 1..Len(r) |-> r[i].salary_residual]
            IN [top_salary |-> base.top_salary,
                top_employment |-> base.top_employment,
                positive_tradeoff |-> Take(SortDesc(r, res), top_n),
                negative_tradeoff |-> Take(SortAsc(r, res), top_n)]
       ELSE [top_salary |-> base.top_salary,
             top_employment |-> base.top_employment,
             positive_tradeoff |-> t, negative_tradeoff |-> t]

\* lines 367-375
TradeoffMeta(rows, t, missing) ==
    LET ys == {Val(rows[i].year) : i \in {i \in 1..Len(rows) : ~IsNull(rows[i].year)}}
        cats == {t[i].course_category : i \in 1..Len(t)}
    IN [rows_used |-> Len(rows),
        years |-> [min |-> IF rows = <<>> THEN Null
                           ELSE Some(CHOOSE y \in ys : \A z \in ys : y <= z),
                   max |-> IF rows = <<>> THEN Null
                           ELSE Some(CHOOSE y \in ys : \A z \in ys : y >= z)],
        missing_before_dropna |-> missing,
        categories_included |-> SortSetBy(cats, [c \in cats |-> OrdOf(c)])]

\* rows of the tradeoff runs: category, employment rate and salary vary; rows
\* without a course name (they count nothing towards sample_size); plus one
\* row for each required cell that can be missing
TradeoffRows ==
    {MkRow(Some(2020), Some("NUS"), Some("Accountancy"), Some(g), Some(e), Some(m)) :
        g \in Categories, e \in EmploymentRates, m \in {1, 2}}
    \cup {MkRow(Some(2020), Some("NUS"), Null, Some(g), Some(e), Some(1)) :
        g \in Categories, e \in EmploymentRates}
    \cup {MkRow(Some(2020), Some("NUS"), Some("Accountancy"), Null, Some(1), Some(1)),
          MkRow(Some(2020), Some("NUS"), Some("Accountancy"), Some("Arts"), Null, Some(1)),
          MkRow(Some(2020), Some("NUS"), Some("Accountancy"), Some("Arts"), Some(1), Null)}

InitTradeoff ==
    /\ columns = AllColumns
    /\ csv \in Files(TradeoffRows)
    /\ \E m \in MinSampleSizes :
          params = [DefaultParams("employment_salary_tradeoff")
                       EXCEPT !.min_sample_size = m]
    /\ pc = "tr_load_data"
    /\ InitCommon

\* line 155
TrLoadData ==
    /\ pc = "tr_load_data"
    /\ LET r == tradeoff_load_data(columns, csv, params)
       IN IF r.kind = "raised"
          THEN pc' = "raised" /\ result' = r /\ df' = df
          ELSE pc' = "tr_dropna" /\ df' = r.rows /\ result' = result
    /\ UNCHANGED <<growth_vars, input, rpi_vars, tradeoff_vars>>

\* lines 157-159
TrDropNa ==
    /\ pc = "tr_dropna"
    /\ LET missing == MissingRequiredCols(columns)
       IN IF missing # <<>>
          THEN pc' = "raised" /\ result' = Raised("KeyError", missing)
               /\ UNCHANGED <<df, missing_before>>
          ELSE pc' = "tr_summary" /\ result' = result
               /\ missing_before' = MissingBefore(df)
               /\ df' = TradeoffDropNa(df)
    /\ UNCHANGED <<growth_vars, input, rpi_vars, summary, correlation,
                   correlation_weighted, trendline>>

\* lines 161-175; the aggregation of "course" raises KeyError when the file
\* has no such column
TrSummary ==
    /\ pc = "tr_summary"
    /\ IF "course" \notin columns
       THEN pc' = "raised" /\ result' = Raised("KeyError", <<"course">>)
            /\ summary' = summary
       ELSE pc' = "tr_stats" /\ result' = result
            /\ summary' = SummaryTable(df, params.min_sample_size)
    /\ UNCHANGED <<growth_vars, input, df, rpi_vars, missing_before, correlation,
                   correlation_weighted, trendline>>

\* lines 177-213
TrStats ==
    /\ pc = "tr_stats"
    /\ correlation' = Correlation(summary)
    /\ correlation_weighted' = WeightedCorrelation(summary)
    /\ summary' = Quadrants(summary)
    /\ pc' = "tr_plot"
    /\ UNCHANGED <<growth_vars, input, df, rpi_vars, missing_before, trendline, result>>

\* lines 215-347: the scatter plot and the trendline.  With an empty summary
\* the axis limits are NaN and set_xlim raises ValueError.
TrPlot ==
    /\ pc = "tr_plot"
    /\ IF summary = <<>>
       THEN pc' = "raised" /\ result' = Raised("ValueError", <<>>)
            /\ trendline' = trendline
       ELSE pc' = "tr_rankings" /\ result' = result
            /\ trendline' = Trendline(summary, params.add_trendline)
    /\ UNCHANGED <<growth_vars, input, df, rpi_vars, missing_before, summary, correlation,
                   correlation_weighted>>

\* lines 349-391
TrRankings ==
    /\ pc = "tr_rankings"
    /\ LET final == IF Len(summary) >= 2 THEN WithResiduals(summary)
                    ELSE summary
       IN /\ summary' = final
          /\ result' =
                [kind |-> "ok", summary |-> final,
                 correlation |-> correlation,
                 correlation_weighted |-> correlation_weighted,
                 quadrants |-> [i \in 1..Len(final) |->
                     [course_category |-> final[i].course_category,
                      quadrant |-> final[i].quadrant]],
                 rankings |-> Rankings(summary, params.top_n),
                 trendline |-> trendline,
                 meta |-> TradeoffMeta(df, final, missing_before)]
    /\ pc' = "done"
    /\ UNCHANGED <<growth_vars, input, df, rpi_vars, missing_before, correlation,
                   correlation_weighted, trendline>>

NextTradeoff ==
    \/ TrLoadData
    \/ TrDropNa
    \/ TrSummary
    \/ TrStats
    \/ TrPlot
    \/ TrRankings

SpecTradeoff == InitTradeoff /\ [][NextTradeoff]_vars

(***************************************************************************)
(* Calls on files that lack columns.                                       *)
(***************************************************************************)
\* two rows, of different years, courses and categories
SchemaRows ==
    <<MkRow(Some(2020), Some("NUS"), Some("Accountancy"), Some("Arts"),
            Some(1), Some(1)),
      MkRow(Some(2021), Some("NTU"), Some("Computing"), Some("Sciences"),
            Some(2), Some(2))>>

Functions ==
    {"compute_relative_performance_index", "relative_performance_index",
     "employment_salary_tradeoff"}

\* any non-empty subset of the columns may be in the file; the call may
\* filter by year and by category; compute_relative_performance_index may
\* group by university and course (the other two have no such argument)
InitSchema ==
    /\ columns \in (SUBSET AllColumns) \ {{}}
    /\ csv \in FilesOver(SchemaRows)
    /\ \E fn \in Functions, ys \in {Null, Some(2020)},
          cs \in {Null, Some({"Arts", "Sciences"})},
          gb \in {<<"course">>, <<"university", "course">>} :
          /\ fn # "compute_relative_performance_index" => gb = <<"course">>
          /\ params = [DefaultParams(fn) EXCEPT !.year_start = ys,
                          !.categories = cs, !.group_by = gb,
                          !.min_sample_size = 1]
    /\ pc = IF params.fn = "employment_salary_tradeoff"
            THEN "tr_load_data" ELSE "rpi_load_data"
    /\ InitCommon

NextSchema == NextRPI \/ NextTradeoff

SpecSchema == InitSchema /\ [][NextSchema]_vars

(***************************************************************************)
(* Both pipelines, called with a min_sample_size that can remove a group:  *)
(* 2 for the index, whose groups hold at least one row, and 1 or 2 for    *)
(* the tradeoff, whose groups count the rows with a course name.           *)
(***************************************************************************)
InitPipelines ==
    /\ columns = AllColumns
    /\ \/ /\ csv \in Files(RpiRows)
          /\ \E w \in WeightModes :
                params = [DefaultParams("relative_performance_index")
                             EXCEPT !.min_sample_size = 2, !.weight_mode = w]
          /\ pc = "rpi_load_data"
       \/ /\ csv \in Files(TradeoffRows)
          /\ \E m \in {1, 2} :
                params = [DefaultParams("employment_salary_tradeoff")
                             EXCEPT !.min_sample_size = m]
          /\ pc = "tr_load_data"
    /\ InitCommon

NextPipelines == NextRPI \/ NextTradeoff

SpecPipelines == InitPipelines /\ [][NextPipelines]_vars

(***************************************************************************)
(* _weighted_mean_std called on its own.                                   *)
(***************************************************************************)
RECURSIVE SeqsOver(_, _)
\* the sequences of length n over the set S
SeqsOver(S, n) ==
    IF n = 0 THEN {<<>>}
    ELSE {Append(s, x) : s \in SeqsOver(S, n - 1), x \in S}

\* values and weights of equal length; weights may be zero or negative
Values == {1, 2, 3}
Weights == {-1, 0, 1, 2}

InitWeighted ==
    /\ columns = AllColumns
    /\ csv = <<>>
    /\ \E n \in 0..MaxValues :
          \E v \in SeqsOver(Values, n), w \in SeqsOver(Weights, n) :
              params = [fn |-> "_weighted_mean_std", values |-> v, weights |-> w]
    /\ pc = "weighted_mean_std"
    /\ InitCommon

\* lines 57-65
WeightedMeanStd ==
    /\ pc = "weighted_mean_std"
    /\ LET r == _weighted_mean_std([i \in 1..Len(params.values) |->
                                       RInt(params.values[i])],
                                   [i \in 1..Len(params.weights) |->
                                       RInt(params.weights[i])])
       IN result' = [kind |-> "ok", mean |-> r.mean, std |-> r.std]
    /\ pc' = "done"
    /\ UNCHANGED <<growth_vars, input, df, rpi_vars, tradeoff_vars>>

NextWeighted == WeightedMeanStd

SpecWeighted == InitWeighted /\ [][NextWeighted]_vars

(***************************************************************************)
(* select_focus_groups called on its own.                                  *)
(***************************************************************************)
RECURSIVE Increasing(_, _)
\* the strictly increasing sequences of length n over 1..k
Increasing(n, k) ==
    IF n = 0 THEN {<<>>}
    ELSE UNION {{Append(s, j) : s \in Increasing(n - 1, j - 1)} : j \in 1..k}

\* the (year, course) cells of a table, by year and course, and the
\* z-scores -1, 0, 1 a cell may hold
Cells ==
    LET cs == Years \X Courses
    IN SortSetBy(cs, [c \in cs |-> c[1] * NameBase + OrdOf(c[2])])
ZScores == {Root(-1, RInt(1)), RootZero, Root(1, RInt(1))}

\* the tables of at most MaxRows rows with one row per (year, course)
Tables ==
    UNION {{[i \in 1..n |-> [year |-> Cells[f[i]][1],
                            key |-> <<Cells[f[i]][2]>>,
                            z_score |-> z[i]]] :
               f \in Increasing(n, Len(Cells)), z \in SeqsOver(ZScores, n)} :
           n \in 0..MaxRows}

\* focus lists: none, empty, or up to two names, "Zoology" in no table
FocusNames == {"Accountancy", "Business", "Zoology"}
FocusLists ==
    {Null} \cup {Some(l) : l \in UNION {SeqsOver(FocusNames, n) : n \in 0..2}}
TopKs == {1, 2}
MinYears == {1, 2}

InitFocus ==
    /\ columns = AllColumns
    /\ csv = <<>>
    /\ \E k \in TopKs, m \in MinYears, f \in FocusLists :
          params = [fn |-> "select_focus_groups", top_k |-> k,
                    min_years |-> m, focus |-> f]
    /\ pc = "select_focus_groups"
    /\ request = NoRequest
    /\ df = <<>> /\ agg = <<>> /\ year_stats = <<>>
    /\ out \in Tables
    /\ missing_before = <<>> /\ summary = <<>>
    /\ correlation = Pending /\ correlation_weighted = Pending
    /\ trendline = Pending /\ result = Pending
    /\ yearly_salary = <<>> /\ growth_df = <<>>

\* lines 169-186 on the table out
SelectFocusGroups ==
    /\ pc = "select_focus_groups"
    /\ result' = [kind |-> "ok",
                  focus |-> select_focus_groups(out, params.top_k,
                                params.min_years, params.focus)]
    /\ pc' = "done"
    /\ UNCHANGED <<growth_vars, input, df, rpi_vars, tradeoff_vars>>

NextFocus == SelectFocusGroups

SpecFocus == InitFocus /\ [][NextFocus]_vars

(***************************************************************************)
(* tradeoff_api and relative_performance_api.  A query parameter is absent *)
(* (None) or a text, a sequence of characters.                             *)
(***************************************************************************)
Digits == <<"0", "1", "2", "3", "4", "5", "6", "7", "8", "9">>
IsDigit(c) == \E d \in 1..Len(Digits) : Digits[d] = c
DigitValue(c) == (CHOOSE d \in 1..Len(Digits) : Digits[d] = c) - 1
RECURSIVE DigitsValue(_)
\* the number written by a sequence of digits
DigitsValue(t) ==
    IF t = <<>> THEN 0
    ELSE DigitsValue(SubSeq(t, 1, Len(t) - 1)) * 10 + DigitValue(t[Len(t)])
IsDigits(t) == t # <<>> /\ \A i \in 1..Len(t) : IsDigit(t[i])

\* int(text): an optional sign and digits, ValueError (here None) otherwise
IntOfText(t) ==
    IF t # <<>> /\ t[1] \in {"-", "+"}
    THEN IF IsDigits(Tail(t))
         THEN Some((IF t[1] = "-" THEN -1 ELSE 1) * DigitsValue(Tail(t)))
         ELSE Null
    ELSE IF IsDigits(t) THEN Some(DigitsValue(t)) ELSE Null

\* _parse_int, lines 333-339 and 397-403
_parse_int(value, default) ==
    IF IsNull(value) \/ Val(value) = <<>> THEN default
    ELSE IF IsNull(IntOfText(Val(value))) THEN default
    ELSE Val(IntOfText(Val(value)))

\* _parse_str, lines 350-353: weight_mode texts are kept as strings
_parse_str(value, default) ==
    IF IsNull(value) \/ Val(value) = "" THEN default ELSE Val(value)

\* x or default: the default for the integer 0, and for the text ""
IntOrDefault(x, default) == IF x = 0 THEN default ELSE x
StrOrDefault(x, default) == IF x = "" THEN default ELSE x

\* the texts a numeric parameter is given as, and those of weight_mode
IntTexts == {<<>>, <<"x">>, <<"-", "1">>, <<"0">>, <<"2">>}
IntParams == {Null} \cup {Some(t) : t \in IntTexts}
WeightModeParams == {Null, Some(""), Some("sample_size"), Some("weighted")}

\* the file of the API runs: two courses in 2020, one of them also in 2021
ApiFile ==
    <<MkRow(Some(2020), Some("NUS"), Some("Accountancy"), Some("Arts"),
            Some(1), Some(1)),
      MkRow(Some(2020), Some("NUS"), Some("Business"), Some("Sciences"),
            Some(2), Some(2)),
      MkRow(Some(2021), Some("NUS"), Some("Accountancy"), Some("Arts"),
            Some(2), Some(2))>>

InitApi ==
    /\ columns = AllColumns
    /\ csv = ApiFile
    /\ \/ \E m \in IntParams, n \in IntParams :
             request = [api |-> "tradeoff_api", min_sample_size |-> m,
                        top_n |-> n]
       \/ \E m \in IntParams, k \in IntParams, y \in IntParams,
             w \in WeightModeParams :
             request = [api |-> "relative_performance_api",
                        min_sample_size |-> m, top_k |-> k, min_years |-> y,
                        weight_mode |-> w]
    /\ params = [fn |-> request.api]
    /\ pc = request.api
    /\ df = <<>> /\ agg = <<>> /\ year_stats = <<>> /\ out = <<>>
    /\ missing_before = <<>> /\ summary = <<>>
    /\ correlation = Pending /\ correlation_weighted = Pending
    /\ trendline = Pending /\ result = Pending
    /\ yearly_salary = <<>> /\ growth_df = <<>>

\* lines 432-449: the arguments of employment_salary_tradeoff
TradeoffApi ==
    /\ pc = "tradeoff_api"
    /\ params' = [DefaultParams("employment_salary_tradeoff") EXCEPT
                     !.min_sample_size = _parse_int(request.min_sample_size, 20),
                     !.top_n = _parse_int(request.top_n, 5)]
    /\ pc' = "tr_load_data"
    /\ UNCHANGED <<growth_vars, columns, csv, request, df, rpi_vars, tradeoff_vars, result>>

\* lines 363-388: the arguments of relative_performance_index
RelativePerformanceApi ==
    /\ pc = "relative_performance_api"
    /\ LET weight_mode ==
              StrOrDefault(_parse_str(request.weight_mode, "none"), "none")
       IN params' = [DefaultParams("relative_performance_index") EXCEPT
             !.min_sample_size =
                 IntOrDefault(_parse_int(request.min_sample_size, 1), 1),
             !.top_k = IntOrDefault(_parse_int(request.top_k, 10), 10),
             !.min_years = IntOrDefault(_parse_int(request.min_years, 6), 6),
             !.weight_mode = IF weight_mode \in {"none", "sample_size"}
                             THEN weight_mode ELSE "none"]
    /\ pc' = "rpi_load_data"
    /\ UNCHANGED <<growth_vars, columns, csv, request, df, rpi_vars, tradeoff_vars, result>>

\* lines 451-460: the response, once employment_salary_tradeoff returned
\* (include_plot is not given: no image)
TradeoffResponse ==
    /\ pc = "done" /\ request.api = "tradeoff_api"
    /\ result' = [kind |-> "ok", summary |-> result.summary,
                  rankings |-> result.rankings,
                  correlation |-> result.correlation,
                  correlation_weighted |-> result.correlation_weighted,
                  trendline |-> result.trendline, meta |-> result.meta,
                  image_path |-> PyNone]
    /\ pc' = "responded"
    /\ UNCHANGED <<growth_vars, input, df, rpi_vars, tradeoff_vars>>

\* lines 390-396: the response, once relative_performance_index returned
\* (slopes.head(30) keeps every row of these runs)
RelativePerformanceResponse ==
    /\ pc = "done" /\ request.api = "relative_performance_api"
    /\ result' = [kind |-> "ok", meta |-> result.meta,
                  year_stats |-> result.year_stats,
                  bump_data |-> result.bump_data, slopes |-> result.slopes,
                  image_path |-> PyNone]
    /\ pc' = "responded"
    /\ UNCHANGED <<growth_vars, input, df, rpi_vars, tradeoff_vars>>

NextApi ==
    \/ TradeoffApi
    \/ RelativePerformanceApi
    \/ NextRPI
    \/ NextTradeoff
    \/ TradeoffResponse
    \/ RelativePerformanceResponse

SpecApi == InitApi /\ [][NextApi]_vars

(***************************************************************************)
(* plot_salary_growth of UniversityComparisonAnalytics.py.  A record of    *)
(* the file is written once with the number of rows that repeat it         *)
(* (copies), so that a university can reach MIN_RECORDS rows.              *)
(***************************************************************************)
COMMON_START_YEAR == 2015
COMMON_END_YEAR == 2022
MIN_RECORDS == 40

GrowthYears == {2020, 2021, 2022}
Universities == {"NTU", "NUS"}
GrowthSalaries == {1, 2}
Copies == {20, 40}
GrowthRecords ==
    {[year |-> y, university |-> u, course |-> "Accountancy",
      gross_monthly_mean |-> m, copies |-> n] :
        y \in GrowthYears, u \in Universities, m \in GrowthSalaries,
        n \in Copies}
GrowthRecordCode(r) ==
    (((r.year - 2020) * NameBase + OrdOf(r.university)) * 4
        + r.gross_monthly_mean) * 100 + r.copies

InitGrowth ==
    /\ columns = {"year", "university", "course", "gross_monthly_mean"}
    /\ csv \in FilesOver(SortSetBy(GrowthRecords,
                  [r \in GrowthRecords |-> GrowthRecordCode(r)]))
    /\ \E ys \in {COMMON_START_YEAR, 2021} :
          params = [fn |-> "plot_salary_growth", year_start |-> ys,
                    year_end |-> COMMON_END_YEAR, universities |-> Null]
    /\ pc = "growth_load_data"
    /\ InitCommon

\* the number of rows of the records of university u
RecordCount(rows, u) ==
    IntSum([i \in 1..Len(rows) |->
        IF rows[i].university = u THEN rows[i].copies ELSE 0])

\* lines 67-85: load_data with no category filter
university_load_data(rows, p) ==
    LET in_years == SelectSeq(rows, LAMBDA r : r.year >= p.year_start
                                                /\ r.year <= p.year_end)
        chosen == IF FilterOn(p.universities)
                  THEN SelectSeq(in_years,
                          LAMBDA r : r.university \in Val(p.universities))
                  ELSE in_years
    IN SelectSeq(chosen,
          LAMBDA r : RecordCount(chosen, r.university) >= MIN_RECORDS)

\* lines 442-446: groupby(['year', 'university']).agg(mean, count), one row
\* per group in the order of the keys
YearlySalary(rows) ==
    LET keys == {[year |-> r.year, university |-> r.university] :
                    r \in Range(rows)}
        code == [g \in keys |-> g.year * NameBase + OrdOf(g.university)]
        Members(g) == SelectSeq(rows, LAMBDA r : r.year = g.year
                                       /\ r.university = g.university)
        Total(g) ==
            LET m == Members(g)
            IN IntSum([i \in 1..Len(m) |->
                          m[i].copies * m[i].gross_monthly_mean])
        Count(g) ==
            LET m == Members(g)
            IN IntSum([i \in 1..Len(m) |-> m[i].copies])
        order == SortSetBy(keys, code)
    IN [i \in 1..Len(order) |->
          [year |-> order[i].year, university |-> order[i].university,
           avg_salary |-> Rat(Total(order[i]), Count(order[i])),
           sample_size |-> Count(order[i])]]

\* line 451: yearly_salary['university'].unique(), in order of appearance
UniqueUniversities(yearly) ==
    LET unis == {yearly[i].university : i \in 1..Len(yearly)}
        first == [u \in unis |->
                     CHOOSE i \in 1..Len(yearly) :
                        /\ yearly[i].university = u
                        /\ \A j \in 1..(i - 1) : yearly[j].university # u]
    IN SortSetBy(unis, first)

\* line 452: the rows of one university, sorted by year
UniData(yearly, uni) ==
    LET rows == SelectSeq(yearly, LAMBDA r : r.university = uni)
    IN StableSort(rows, [i \in 1..Len(rows) |-> rows[i].year])

\* a faulty variant, for comparison: growth measured from the first year
FirstRow(uni_data, i) == uni_data[1]

\* line 461: prev_row = uni_data.iloc[i-1]
PrevRow(uni_data, i) == uni_data[i - 1]

\* lines 457-463
GrowthRate(uni_data, i) ==
    IF i = 1 THEN RZero
    ELSE LET row == uni_data[i]
             prev_row == PrevRow(uni_data, i)
         IN RMul(RDiv(RSub(row.avg_salary, prev_row.avg_salary),
                      prev_row.avg_salary),
                 RInt(100))

\* lines 454-471: the growth rows of one university
UniGrowth(yearly, uni) ==
    LET uni_data == UniData(yearly, uni)
    IN [i \in 1..Len(uni_data) |->
          [year |-> uni_data[i].year, university |-> uni,
           salary |-> uni_data[i].avg_salary,
           growth_rate |-> GrowthRate(uni_data, i),
           sample_size |-> uni_data[i].sample_size]]

RECURSIVE Concat(_)
Concat(ss) == IF ss = <<>> THEN <<>> ELSE Head(ss) \o Concat(Tail(ss))

\* lines 449-473
GrowthData(yearly) ==
    LET unis == UniqueUniversities(yearly)
    IN Concat([k \in 1..Len(unis) |-> UniGrowth(yearly, unis[k])])

\* line 439
GrowthLoadData ==
    /\ pc = "growth_load_data"
    /\ df' = university_load_data(csv, params)
    /\ pc' = "growth_yearly_salary"
    /\ UNCHANGED <<input, rpi_vars, tradeoff_vars, growth_vars, result>>

\* lines 441-446
GrowthYearlySalary ==
    /\ pc = "growth_yearly_salary"
    /\ yearly_salary' = YearlySalary(df)
    /\ pc' = "growth_rates"
    /\ UNCHANGED <<input, df, rpi_vars, tradeoff_vars, growth_df, result>>

\* lines 448-473
GrowthRates ==
    /\ pc = "growth_rates"
    /\ growth_df' = GrowthData(yearly_salary)
    /\ pc' = "growth_plot"
    /\ UNCHANGED <<input, df, rpi_vars, tradeoff_vars, yearly_salary, result>>

\* lines 475-531.  pd.DataFrame([]) has no columns: growth_df['university']
\* raises KeyError when no row was collected.
GrowthPlot ==
    /\ pc = "growth_plot"
    /\ IF growth_df = <<>>
       THEN pc' = "raised" /\ result' = Raised("KeyError", <<"university">>)
       ELSE pc' = "done" /\ result' = [kind |-> "ok", growth_df |-> growth_df]
    /\ UNCHANGED <<input, df, rpi_vars, tradeoff_vars, growth_vars>>

NextGrowth ==
    \/ GrowthLoadData
    \/ GrowthYearlySalary
    \/ GrowthRates
    \/ GrowthPlot

SpecGrowth == InitGrowth /\ [][NextGrowth]_vars

(***************************************************************************)
(* Properties of compute_relative_performance_index.                       *)
(***************************************************************************)
Terminal == pc \in {"done", "raised"}
Returned == result.kind = "ok"
\* the rows of a table that belong to year y
RowsOfYear(table, y) == {table[i] : i \in {i \in 1..Len(table) : table[i].year = y}}
TableYears(table) == {table[i].year : i \in 1..Len(table)}
\* normalization has run: out holds the z-scores
Normalized == pc \in {"rpi_rank", "rpi_return", "rpi_slopes", "done"}

\* C1: in every year of the returned table the ranks are exactly 1..k, k the
\* number of distinct z-scores of the year; two groups of a year have the
\* same rank iff they have the same z-score; rank 1 is the highest z-score.
C1_DenseRanks ==
    Returned =>
        \A y \in TableYears(result.table) :
            LET rows == RowsOfYear(result.table, y)
                k == Cardinality({r.z_score : r \in rows})
            IN /\ {r.rank : r \in rows} = 1..k
               /\ \A a, b \in rows : (a.rank = b.rank) <=> (a.z_score = b.z_score)
               /\ \A a \in rows :
                     (a.rank = 1) <=> (\A b \in rows : ~ZLt(a.z_score, b.z_score))

\* a year with three groups, two of them tied, has been ranked
C1_Witness ==
    /\ Returned
    /\ \E y \in TableYears(result.table) :
          LET rows == RowsOfYear(result.table, y)
          IN /\ Cardinality(rows) = 3
             /\ Cardinality({r.z_score : r \in rows}) = 2
             /\ \E a, b \in rows : a # b /\ a.rank = 1 /\ b.rank = 1

\* all groups of year y of the table have the same mean_salary
FlatYear(table, y) ==
    \A a, b \in RowsOfYear(table, y) : a.mean_salary = b.mean_salary

\* C2 as stated, in the scenario of the specification: a year of three
\* groups with identical mean_salary gives every group z_score 0, rank 1
\* and percentile 50.
C2_Original ==
    Returned =>
        \A y \in TableYears(result.table) :
            (FlatYear(result.table, y)
             /\ Cardinality(RowsOfYear(result.table, y)) = 3)
            => \A r \in RowsOfYear(result.table, y) :
                  /\ r.z_score = RootZero
                  /\ r.rank = 1
                  /\ r.percentile = RInt(50)

\* C2 amended: a year whose n groups all have the same mean_salary gives
\* every group z_score 0, rank 1 and percentile 100 * (n + 1) / (2 * n)
\* (66.67 for three groups).
C2_FlatYear ==
    Returned =>
        \A y \in TableYears(result.table) :
            FlatYear(result.table, y)
            => LET n == Cardinality(RowsOfYear(result.table, y))
               IN \A r \in RowsOfYear(result.table, y) :
                     /\ r.z_score = RootZero
                     /\ r.rank = 1
                     /\ r.percentile = Rat(100 * (n + 1), 2 * n)

\* a year of three groups with one mean_salary has been returned
C2_Witness ==
    /\ Returned
    /\ \E y \in TableYears(result.table) :
          /\ FlatYear(result.table, y)
          /\ Cardinality(RowsOfYear(result.table, y)) = 3

\* the baseline std is below zscore_floor_std (or is not a number)
BelowFloor(std) ==
    \/ std.k # "root"
    \/ std.sq.n < CeilDiv(CeilDiv(std.sq.d, ZscoreFloorStdInverse),
                           ZscoreFloorStdInverse)

\* C3: once normalized, every z_score is a finite number: 0 when the year's
\* std is below the floor, (mean_salary - year_mean) / year_std otherwise;
\* and ranking never meets a NaN.
C3_ZScore ==
    /\ Normalized =>
          \A i \in 1..Len(out) :
              LET r == out[i]
                  dev == RSub(r.mean_salary, r.year_mean)
              IN /\ r.z_score.k = "root"
                 /\ IF BelowFloor(r.year_std)
                    THEN r.z_score = RootZero
                    ELSE /\ r.z_score.sgn = RSign(dev)
                         /\ RMul(r.z_score.sq, r.year_std.sq) = RSq(dev)
    /\ pc = "raised" => result.error # "IntCastingNaNError"

\* weighted mode, with a floored year (a single group) and a year with spread
C3_Witness ==
    /\ pc = "done"
    /\ params.weight_mode = "sample_size"
    /\ \E i, j \in 1..Len(out) :
          /\ BelowFloor(out[i].year_std) /\ out[i].n_groups = 1
          /\ ~BelowFloor(out[j].year_std) /\ out[j].z_score.sgn = -1

\* C5 as stated, for the relative performance functions: when no group is
\* left the call ends without raising and returns empty tables.
C5_Original ==
    (Terminal /\ columns = AllColumns /\ agg = <<>>) =>
        /\ Returned
        /\ result.table = <<>>
        /\ result.year_stats = <<>>

\* C6 as stated, for relative_performance_index: the call completes, and a
\* course gets a slope row iff it is present in at least two years.
C6_Original ==
    (Terminal /\ params.fn = "relative_performance_index" /\ out # <<>>) =>
        /\ Returned
        /\ {s.course : s \in result.slopes} =
              {c \in {out[i].key[1] : i \in 1..Len(out)} :
                  \E i, j \in 1..Len(out) :
                      /\ out[i].key[1] = c /\ out[j].key[1] = c
                      /\ out[i].year # out[j].year}

(***************************************************************************)
(* Properties of employment_salary_tradeoff.                               *)
(***************************************************************************)
\* the statistics have been computed and the summary carries its levels
StatsDone ==
    \/ pc \in {"tr_plot", "tr_rankings", "done"}
    \/ pc = "raised" /\ result.error = "ValueError"
Classified == StatsDone /\ Len(summary) >= 1

\* the axes of the quadrant split: the value column and its level column
Axes ==
    {[value |-> "avg_median_salary", level |-> "salary_level"],
     [value |-> "avg_employment_rate", level |-> "employment_level"]}
AxisValues(a) == {summary[i][a.value] : i \in 1..Len(summary)}
HighCount(a) ==
    Cardinality({i \in 1..Len(summary) : summary[i][a.level] = "High"})
\* the number of groups that hold the smallest value of the axis
MinCount(a) ==
    Cardinality({i \in 1..Len(summary) :
        \A j \in 1..Len(summary) : RLe(summary[i][a.value], summary[j][a.value])})

\* C4 as stated: on each axis the number of High groups is ceil(n/2) or
\* floor(n/2), and the groups are all High or all Low only when all values
\* of the axis are equal.
C4_Original ==
    Classified =>
        \A a \in Axes :
            LET n == Len(summary)
                h == HighCount(a)
            IN /\ h \in {CeilDiv(n, 2), n \div 2}
               /\ (h = n \/ h = 0) => Cardinality(AxisValues(a)) = 1

\* C4: on each axis at least ceil(n/2) of the n >= 1 groups are High, exactly
\* ceil(n/2) when the n values are pairwise distinct; the groups are never
\* all Low; they are all High exactly when more than half of them hold the
\* smallest value (ties at the median count as High).
C4_MedianSplit ==
    Classified =>
        \A a \in Axes :
            LET n == Len(summary)
                h == HighCount(a)
            IN /\ h >= CeilDiv(n, 2)
               /\ h >= 1
               /\ Cardinality(AxisValues(a)) = n => h = CeilDiv(n, 2)
               /\ h = n <=> MinCount(a) >= n \div 2 + 1

\* three groups whose salaries are not all equal and yet all High, and whose
\* employment rates split into one Low and two High
C4_Witness ==
    /\ pc = "done"
    /\ Len(summary) = 3
    /\ LET s == [value |-> "avg_median_salary", level |-> "salary_level"]
           e == [value |-> "avg_employment_rate", level |-> "employment_level"]
       IN /\ Cardinality(AxisValues(s)) = 2 /\ HighCount(s) = 3
          /\ Cardinality(AxisValues(e)) = 2 /\ HighCount(e) = 2

\* the columns of the summary as sets of indices and sums
Groups == 1..Len(summary)
ZeroVariance(col) == \A i, j \in Groups : summary[i][col] = summary[j][col]
Degenerate ==
    \/ Len(summary) < 2
    \/ ZeroVariance("avg_employment_rate")
    \/ ZeroVariance("avg_median_salary")

\* C8 as stated: the unweighted correlation is the one undefined marker
\* (None) when fewer than two groups remain or a series has zero variance,
\* and otherwise a coefficient in [-1, 1].
C8_Original ==
    StatsDone =>
        IF Degenerate THEN correlation = PyNone
        ELSE /\ correlation.k = "root"
             /\ RLe(correlation.sq, RInt(1))

\* the weighted raw moments of the summary, weights = sample_size
WSum(f) ==
    RSum([i \in Groups |-> RMul(RInt(summary[i].sample_size), f[i])])
MomentW == WSum([i \in Groups |-> RInt(1)])
MomentX == WSum([i \in Groups |-> summary[i].avg_employment_rate])
MomentY == WSum([i \in Groups |-> summary[i].avg_median_salary])
MomentXX == WSum([i \in Groups |-> RSq(summary[i].avg_employment_rate)])
MomentYY == WSum([i \in Groups |-> RSq(summary[i].avg_median_salary)])
MomentXY ==
    WSum([i \in Groups |-> RMul(summary[i].avg_employment_rate,
                                 summary[i].avg_median_salary)])
\* weighted variances and covariance about the weighted means, when the
\* sum of weights is positive: E[xy] - E[x] E[y]
WeightedVarX == RSub(RDiv(MomentXX, MomentW), RSq(RDiv(MomentX, MomentW)))
WeightedVarY == RSub(RDiv(MomentYY, MomentW), RSq(RDiv(MomentY, MomentW)))
WeightedCov ==
    RSub(RDiv(MomentXY, MomentW),
         RMul(RDiv(MomentX, MomentW), RDiv(MomentY, MomentW)))
WeightedUndefined ==
    \/ Len(summary) < 2
    \/ RLe(MomentW, RZero)
    \/ RLe(WeightedVarX, RZero)
    \/ RLe(WeightedVarY, RZero)

\* C9: the weighted correlation is None exactly when fewer than two groups
\* remain, the sum of the sample sizes is <= 0 or a weighted variance is
\* <= 0; otherwise it is weighted covariance / sqrt(var_x * var_y), all
\* three taken about the weighted means with weights = sample_size.
C9_WeightedCorrelation ==
    StatsDone =>
        IF WeightedUndefined THEN correlation_weighted = PyNone
        ELSE correlation_weighted =
                Root(RSign(WeightedCov),
                     RDiv(RSq(WeightedCov), RMul(WeightedVarX, WeightedVarY)))

\* a returned weighted coefficient under unequal weights that differs from
\* the unweighted one
C9_Witness ==
    /\ pc = "done"
    /\ \E i, j \in Groups : summary[i].sample_size # summary[j].sample_size
    /\ correlation_weighted.k = "root"
    /\ correlation.k = "root"
    /\ correlation_weighted # correlation

EqualPositiveWeights ==
    /\ Len(summary) >= 2
    /\ \A i \in Groups : summary[i].sample_size > 0
    /\ \A i, j \in Groups : summary[i].sample_size = summary[j].sample_size

Referenced ==
    IF params.fn = "employment_salary_tradeoff" THEN Range(RequiredCols)
    ELSE {"year", params.salary_column} \cup Range(params.group_by)
MissingReferenced == Referenced \ columns

\* C7 as stated: when the file lacks a referenced column the call ends in
\* one error that names every missing column, before any aggregation.
C7_Original ==
    (Terminal /\ MissingReferenced # {}) =>
        /\ result.kind = "raised"
        /\ MissingReferenced \subseteq Range(result.names)
        /\ agg = <<>>
        /\ summary = <<>>

(***************************************************************************)
(* Properties of the aggregate groups.                                     *)
(***************************************************************************)
\* C11 as stated: every group of an aggregation result has sample_size >= 1,
\* whatever min_sample_size is: the (year, course) groups of agg and the
\* category groups of summary.
C11_Original ==
    /\ \A i \in 1..Len(agg) : agg[i].sample_size >= 1
    /\ \A i \in 1..Len(summary) : summary[i].sample_size >= 1

\* the rows of df whose group reaches min_sample_size: df is the table
\* after dropna, a group is a (year, key) pair of the relative performance
\* index and a category of the tradeoff, where the count is the number of
\* rows of the group (with a course name, in the tradeoff)
SameRpiGroup(r, q) ==
    /\ r.year = q.year
    /\ GroupKey(r, params.group_by) = GroupKey(q, params.group_by)
RpiCount(r) == Cardinality({j \in 1..Len(df) : SameRpiGroup(df[j], r)})
TradeoffCount(r) ==
    Cardinality({j \in 1..Len(df) :
        /\ df[j].course_category = r.course_category
        /\ ~IsNull(df[j].course)})
LargeEnough(n) == params.min_sample_size <= 0 \/ n >= params.min_sample_size
RpiKeptRows == SelectSeq(df, LAMBDA r : LargeEnough(RpiCount(r)))
TradeoffKeptRows == SelectSeq(df, LAMBDA r : LargeEnough(TradeoffCount(r)))
AllLargeEnough(t) == \A i \in 1..Len(t) : LargeEnough(t[i].sample_size)
\* some group of the call is below min_sample_size
SomeGroupRemoved ==
    \E i \in 1..Len(df) :
        ~LargeEnough(IF params.fn = "employment_salary_tradeoff"
                     THEN TradeoffCount(df[i]) ELSE RpiCount(df[i]))

\* C12: a returned result is the result of the same call on the rows of the
\* groups that reach min_sample_size alone: baselines, z-scores, ranks and
\* percentiles of the index, and correlations, quadrant levels, trendline,
\* residuals and rankings of the tradeoff, are those of the kept groups, and
\* no returned table holds a group below min_sample_size.
C12_RemovedBeforeStatistics ==
    Returned =>
        IF params.fn = "employment_salary_tradeoff"
        THEN LET t == SummaryTable(TradeoffKeptRows, 0)
                 q == Quadrants(t)
             IN /\ correlation = Correlation(t)
                /\ correlation_weighted = WeightedCorrelation(t)
                /\ trendline = Trendline(q, params.add_trendline)
                /\ result.rankings = Rankings(q, params.top_n)
                /\ result.summary =
                      (IF Len(q) >= 2 THEN WithResiduals(q) ELSE q)
                /\ AllLargeEnough(result.summary)
                /\ AllLargeEnough(result.rankings.top_salary)
                /\ AllLargeEnough(result.rankings.top_employment)
                /\ AllLargeEnough(result.rankings.positive_tradeoff)
                /\ AllLargeEnough(result.rankings.negative_tradeoff)
        ELSE LET g == RpiGroupBy(RpiKeptRows, params)
                 ys == YearStats(g, params.weight_mode)
             IN /\ agg = g
                /\ year_stats = ys
                /\ result.year_stats = ys
                /\ result.table = SortYearRank(Ranked(Normalize(g, ys)))
                /\ AllLargeEnough(result.table)

\* a returned tradeoff with a removed group and two kept ones
C12_Witness ==
    /\ Returned /\ params.fn = "employment_salary_tradeoff"
    /\ SomeGroupRemoved
    /\ Len(result.summary) = 2

\* a returned index table with a removed group and a kept one
C12_WitnessIndex ==
    /\ Returned /\ params.fn = "relative_performance_index"
    /\ SomeGroupRemoved
    /\ params.min_sample_size = 2
    /\ Len(result.table) = 1

\* the values of a metric over the rows of df of one category
MetricOf(cat, col) ==
    LET m == SelectSeq(df, LAMBDA r : r.course_category = Some(cat))
    IN [i \in 1..Len(m) |-> RInt(Val(m[i][col]))]

\* C13 as stated: the standard deviations of a category group are population
\* standard deviations (divisor = number of records), 0 for a group of one
\* record.
C13_Original ==
    \A i \in 1..Len(summary) :
        /\ summary[i].employment_rate_std =
              NpStd(MetricOf(summary[i].course_category,
                             "employment_rate_overall"))
        /\ summary[i].median_salary_std =
              NpStd(MetricOf(summary[i].course_category,
                             "gross_monthly_median"))

(***************************************************************************)
(* Properties of _weighted_mean_std.                                       *)
(***************************************************************************)
\* the raw sums of a call: of the weights, the values, and their products
CallLen == Len(params.values)
SumW == IntSum(params.weights)
SumWV == IntSum([i \in 1..CallLen |-> params.weights[i] * params.values[i]])
SumWVV ==
    IntSum([i \in 1..CallLen |->
               params.weights[i] * params.values[i] * params.values[i]])
SumV == IntSum(params.values)
SumVV == IntSum([i \in 1..CallLen |-> params.values[i] * params.values[i]])
\* mean and population standard deviation from the raw sums:
\* var = E[v^2] - E[v]^2
UnweightedResult ==
    IF CallLen = 0 THEN [kind |-> "ok", mean |-> NaN, std |-> NaN]
    ELSE [kind |-> "ok", mean |-> Rat(SumV, CallLen),
          std |-> Sqrt(Rat(SumVV * CallLen - SumV * SumV, CallLen * CallLen))]
WeightedResult ==
    [kind |-> "ok", mean |-> Rat(SumWV, SumW),
     std |-> Sqrt(Rat(SumWVV * SumW - SumWV * SumWV, SumW * SumW))]
EqualPositive ==
    /\ CallLen >= 1
    /\ \A i \in 1..CallLen :
          params.weights[i] > 0 /\ params.weights[i] = params.weights[1]

\* C14: _weighted_mean_std returns sum(w*v)/sum(w) and
\* sqrt(sum(w*(v-mean)^2)/sum(w)) when sum(w) > 0, and the unweighted mean
\* and population standard deviation of the values when sum(w) <= 0; it
\* always returns; with equal positive weights the result is the unweighted
\* one.
C14_WeightedMeanStd ==
    /\ pc = "done" =>
          /\ result = (IF SumW > 0 THEN WeightedResult ELSE UnweightedResult)
          /\ EqualPositive => result = UnweightedResult
    /\ pc \in {"weighted_mean_std", "done"}

\* a weighted result under unequal weights that differs from the unweighted
\* one in mean and in standard deviation
C14_Witness ==
    /\ pc = "done" /\ SumW > 0
    /\ result.std.k = "root" /\ result.std.sgn = 1
    /\ result.mean # UnweightedResult.mean
    /\ result.std # UnweightedResult.std

\* the fallback on weights that sum to zero or less, with a spread
C14_WitnessFallback ==
    /\ pc = "done" /\ SumW <= 0
    /\ \E i \in 1..CallLen : params.weights[i] # 0
    /\ result.std.k = "root" /\ result.std.sgn = 1

(***************************************************************************)
(* Properties of select_focus_groups.                                      *)
(***************************************************************************)
NoFocusList == IsNull(params.focus) \/ Val(params.focus) = <<>>
\* the periods a group is present in and the sum of its z-scores, which in
\* these tables are -1, 0 or 1
PeriodsOf(c) ==
    {y \in Years : \E i \in 1..Len(out) : out[i].year = y /\ out[i].key = <<c>>}
SumZOf(c) ==
    LET rows == {i \in 1..Len(out) : out[i].key = <<c>>}
    IN Cardinality({i \in rows : out[i].z_score.sgn = 1})
       - Cardinality({i \in rows : out[i].z_score.sgn = -1})
\* a has the higher mean z-score (a group has one row per period)
HigherMean(a, b) ==
    SumZOf(a) * Cardinality(PeriodsOf(b)) > SumZOf(b) * Cardinality(PeriodsOf(a))
SameMean(a, b) ==
    SumZOf(a) * Cardinality(PeriodsOf(b)) = SumZOf(b) * Cardinality(PeriodsOf(a))
\* a comes before b: higher mean, or the same mean and more periods
Before(a, b) ==
    \/ HigherMean(a, b)
    \/ SameMean(a, b) /\ Cardinality(PeriodsOf(a)) > Cardinality(PeriodsOf(b))
Qualifying ==
    {c \in Courses : Cardinality(PeriodsOf(c)) >= params.min_years}

\* C16: without a focus list select_focus_groups returns the first
\* min(top_k, number of qualifying groups) groups among those present in at
\* least min_years periods, by mean z-score descending and then by number
\* of periods descending; no group with fewer periods is returned.
C16_TopGroups ==
    (pc = "done" /\ NoFocusList) =>
        LET r == result.focus
            n == Cardinality(Qualifying)
        IN /\ Len(r) = (IF params.top_k < n THEN params.top_k ELSE n)
           /\ Range(r) \subseteq Qualifying
           /\ Cardinality(Range(r)) = Len(r)
           /\ \A i, j \in 1..Len(r) : i < j => ~Before(r[j], r[i])
           /\ \A c \in Qualifying \ Range(r) :
                 \A i \in 1..Len(r) : ~Before(c, r[i])

\* the group with the highest mean z-score is present in too few periods
\* and is left out, and a group with more periods is returned
C16_Witness ==
    /\ pc = "done" /\ NoFocusList
    /\ result.focus # <<>>
    /\ \E c \in Courses \ Qualifying :
          /\ PeriodsOf(c) # {}
          /\ \A d \in Qualifying : HigherMean(c, d)

\* two groups of equal mean in the order of their numbers of periods
C16_WitnessTie ==
    /\ pc = "done" /\ NoFocusList
    /\ Len(result.focus) = 2
    /\ SameMean(result.focus[1], result.focus[2])
    /\ OrdOf(result.focus[1]) > OrdOf(result.focus[2])

\* the positions of the focus list that name a group of the table
KnownPositions ==
    {i \in 1..Len(Val(params.focus)) :
        \E j \in 1..Len(out) : out[j].key = <<Val(params.focus)[i]>>}
\* the k-th of them
KnownPosition(k) ==
    CHOOSE i \in KnownPositions :
        Cardinality({j \in KnownPositions : j < i}) = k - 1

\* C17: with a non-empty focus list select_focus_groups returns the entries
\* of the list that name a group of the table, in the order of the list,
\* whatever top_k and min_years are, and does not raise.
C17_FocusList ==
    /\ (pc = "done" /\ ~NoFocusList) =>
          LET r == result.focus
          IN /\ Len(r) = Cardinality(KnownPositions)
             /\ \A k \in 1..Len(r) : r[k] = Val(params.focus)[KnownPosition(k)]
    /\ pc # "raised"

\* an unknown name dropped before a known one, which is kept although it is
\* present in fewer than min_years periods
C17_Witness ==
    /\ pc = "done"
    /\ params.focus = Some(<<"Zoology", "Business">>)
    /\ result.focus = <<"Business">>
    /\ params.min_years = 2
    /\ Cardinality(PeriodsOf("Business")) = 1

(***************************************************************************)
(* Properties of the API wrappers.                                         *)
(***************************************************************************)
\* the wrapper has called its engine: params holds the engine's arguments
EngineCalled ==
    request.api # "none" /\ pc \notin {"tradeoff_api", "relative_performance_api"}

\* C15 as stated: the values that reach the engine lie in their domains:
\* min_sample_size >= 0, top_n / top_k and min_years >= 1, weight_mode one
\* of none and sample_size.
C15_Original ==
    EngineCalled =>
        /\ params.min_sample_size >= 0
        /\ params.weight_mode \in {"none", "sample_size"}
        /\ IF request.api = "tradeoff_api" THEN params.top_n >= 1
           ELSE params.top_k >= 1 /\ params.min_years >= 1

(***************************************************************************)
(* Properties of the z-scores of a period.                                 *)
(***************************************************************************)
\* the z-scores of the rows of year y
ZScoresOf(y) ==
    LET rows == SelectSeq(out, LAMBDA r : r.year = y)
    IN [i \in 1..Len(rows) |-> rows[i].z_score]
\* a / b for roots a and b # 0 whose ratio is rational, as a fraction
RootRatio(a, b) ==
    LET q == RDiv(a.sq, b.sq)
    IN Rat(a.sgn * b.sgn * IntRoot(q.n), IntRoot(q.d))
\* the roots zs sum to zero: all are zero, or their ratios to one of them
\* that is not zero sum to zero
SumsToZero(zs) ==
    \/ \A i \in 1..Len(zs) : zs[i].sgn = 0
    \/ LET ref == zs[CHOOSE i \in 1..Len(zs) : zs[i].sgn # 0]
       IN RSum([i \in 1..Len(zs) |-> RootRatio(zs[i], ref)]) = RZero
SquaresSum(zs) == RSum([i \in 1..Len(zs) |-> zs[i].sq])
\* a year with at least two groups and a baseline std at or above the floor
SpreadYear(y) ==
    \E i \in 1..Len(out) :
        /\ out[i].year = y /\ out[i].n_groups >= 2
        /\ ~BelowFloor(out[i].year_std)

\* C18: with weight_mode = none, the z-scores of a period of n >= 2 groups
\* whose baseline std is at or above the floor sum to 0 and their squares
\* sum to n.
C18_MeanZeroStdOne ==
    (Normalized /\ params.weight_mode = "none") =>
        \A y \in Years :
            SpreadYear(y) =>
                /\ SumsToZero(ZScoresOf(y))
                /\ SquaresSum(ZScoresOf(y)) = RInt(Len(ZScoresOf(y)))

\* a year of three groups with the salaries 1, 2, 3: z-scores -sqrt(3/2),
\* 0, sqrt(3/2)
C18_Witness ==
    /\ pc = "rpi_slopes" /\ params.weight_mode = "none"
    /\ \E y \in Years :
          /\ SpreadYear(y)
          /\ Len(ZScoresOf(y)) = 3
          /\ \E i \in 1..3 : ZScoresOf(y)[i] = Root(-1, Rat(3, 2))
          /\ \E i \in 1..3 : ZScoresOf(y)[i] = RootZero

(***************************************************************************)
(* Properties of the tradeoff outliers.                                    *)
(***************************************************************************)
Min(a, b) == IF a < b THEN a ELSE b
\* the fitted value of group i of table t: salary minus residual
FittedValue(t, i) == RSub(t[i].avg_median_salary, t[i].salary_residual)
\* the fitted values of t lie on one line over the employment rates
OnOneLine(t) ==
    /\ \A i, j \in 1..Len(t) :
          t[i].avg_employment_rate = t[j].avg_employment_rate
              => FittedValue(t, i) = FittedValue(t, j)
    /\ \A i, j, k \in 1..Len(t) :
          RMul(RSub(FittedValue(t, i), FittedValue(t, j)),
               RSub(t[i].avg_employment_rate, t[k].avg_employment_rate))
          = RMul(RSub(FittedValue(t, i), FittedValue(t, k)),
                 RSub(t[i].avg_employment_rate, t[j].avg_employment_rate))
\* the normal equations of the least-squares line: the residuals sum to
\* zero, and so do their products with the employment rates
NormalEquations(t) ==
    /\ RSum([i \in 1..Len(t) |-> t[i].salary_residual]) = RZero
    /\ RSum([i \in 1..Len(t) |->
          RMul(t[i].avg_employment_rate, t[i].salary_residual)]) = RZero
LeastSquaresResiduals(t) == OnOneLine(t) /\ NormalEquations(t)
\* list holds distinct rows of t
RowsFrom(list, t) ==
    /\ \A k \in 1..Len(list) : \E i \in 1..Len(t) : t[i] = list[k]
    /\ \A k, l \in 1..Len(list) :
          list[k].course_category = list[l].course_category => k = l
\* the rows of t that list leaves out
LeftOut(list, t) ==
    {i \in 1..Len(t) : \A k \in 1..Len(list) : list[k] # t[i]}
\* list is the m rows of t of the largest residual, largest first
LargestResiduals(list, t, m) ==
    /\ Len(list) = m
    /\ RowsFrom(list, t)
    /\ \A k \in 1..(Len(list) - 1) :
          RLe(list[k + 1].salary_residual, list[k].salary_residual)
    /\ \A i \in LeftOut(list, t) : \A k \in 1..Len(list) :
          RLe(t[i].salary_residual, list[k].salary_residual)
\* list is the m rows of t of the smallest residual, smallest first
SmallestResiduals(list, t, m) ==
    /\ Len(list) = m
    /\ RowsFrom(list, t)
    /\ \A k \in 1..(Len(list) - 1) :
          RLe(list[k].salary_residual, list[k + 1].salary_residual)
    /\ \A i \in LeftOut(list, t) : \A k \in 1..Len(list) :
          RLe(list[k].salary_residual, t[i].salary_residual)
\* the outlier lists of a returned result are as C19 describes them
OutlierLists ==
    LET t == result.summary
        n == Len(t)
        m == Min(params.top_n, n)
    IN IF n >= 2
       THEN /\ LeastSquaresResiduals(t)
            /\ LargestResiduals(result.rankings.positive_tradeoff, t, m)
            /\ SmallestResiduals(result.rankings.negative_tradeoff, t, m)
       ELSE /\ result.rankings.positive_tradeoff = t
            /\ result.rankings.negative_tradeoff = t
            /\ t = summary

\* C19: with n >= 2 groups, positive_tradeoff is the min(top_n, n) groups of
\* the largest residual, largest first, and negative_tradeoff the
\* min(top_n, n) groups of the smallest residual, smallest first, the
\* residual taken from the least-squares line over all n groups; with fewer
\* than 2 groups both lists are the unmodified summary and no error is raised.
C19_Original ==
    /\ (pc = "done" /\ params.fn = "employment_salary_tradeoff") => OutlierLists
    /\ (StatsDone /\ Len(summary) < 2) => pc # "raised"

\* the part of C19 about results that are returned, for a top_n that is a
\* count (nlargest and nsmallest return no row for a negative top_n)
C19_ReturnedLists ==
    (pc = "done" /\ params.fn = "employment_salary_tradeoff"
        /\ params.top_n >= 0) => OutlierLists

(***************************************************************************)
(* Properties of the trendline.                                            *)
(***************************************************************************)
\* the plot has been drawn for a summary of at least two groups with
\* add_trendline set
TrendlineFitted ==
    /\ pc \in {"tr_rankings", "done"}
    /\ params.add_trendline
    /\ Len(summary) >= 2
\* SS_res of the reported line: the sum over the groups of
\* (salary - (slope * employment rate + intercept))^2
SSRes ==
    RSum([i \in Groups |->
        RSq(RSub(summary[i].avg_median_salary,
                 RAdd(RMul(trendline.slope, summary[i].avg_employment_rate),
                      trendline.intercept)))])
\* SS_tot from the raw sums: sum(y^2) - sum(y)^2 / n
SSTot ==
    LET sy == RSum([i \in Groups |-> summary[i].avg_median_salary])
        syy == RSum([i \in Groups |-> RSq(summary[i].avg_median_salary)])
    IN RSub(syy, RDiv(RSq(sy), RInt(Len(summary))))

C20_WitnessFit ==
    /\ pc = "done" /\ TrendlineFitted
    /\ result.trendline.r2 # PyNone
    /\ RLt(RZero, result.trendline.r2)
    /\ RLt(result.trendline.r2, RInt(1))

(***************************************************************************)
(* Properties of the percentile.                                           *)
(***************************************************************************)
\* the rows of the returned table, and those of the year of row i
TableRows == 1..Len(result.table)
SameYear(i) == {j \in TableRows : result.table[j].year = result.table[i].year}
\* row j has a lower z_score than row i
LowerZ(j, i) == RootLt(result.table[j].z_score, result.table[i].z_score)
\* the mean of the positions first .. last of an ascending order
MeanPosition(first, last) ==
    Rat(IntSum([k \in 1..(last - first + 1) |-> first + k - 1]),
        last - first + 1)
\* the average rank of row i within its year, ascending: the rows of a lower
\* z_score come first, then the rows tied with i share their positions
AverageRank(i) ==
    LET below == Cardinality({j \in SameYear(i) : LowerZ(j, i)})
        tied == Cardinality({j \in SameYear(i) :
                    result.table[j].z_score = result.table[i].z_score})
    IN MeanPosition(below + 1, below + tied)

\* C21: within a year the percentile is 100 * (average rank of the z_score,
\* ascending) / (groups of the year); it lies in [0, 100], never falls as
\* the z_score rises, and is equal for tied groups.
C21_AveragePercentile ==
    Returned =>
        \A i \in TableRows :
            /\ result.table[i].percentile =
                  RDiv(RMul(RInt(100), AverageRank(i)),
                       RInt(Cardinality(SameYear(i))))
            /\ RLe(RZero, result.table[i].percentile)
            /\ RLe(result.table[i].percentile, RInt(100))
            /\ \A j \in SameYear(i) :
                  /\ LowerZ(j, i) =>
                        RLe(result.table[j].percentile,
                            result.table[i].percentile)
                  /\ result.table[j].z_score = result.table[i].z_score =>
                        result.table[j].percentile = result.table[i].percentile

\* a year of three groups, two of them tied below the third: percentiles
\* 50, 50 and 100
C21_Witness ==
    /\ Returned
    /\ \E i, j, k \in TableRows :
          /\ j \in SameYear(i) /\ k \in SameYear(i) /\ i # j
          /\ result.table[i].z_score = result.table[j].z_score
          /\ LowerZ(i, k)
          /\ result.table[i].percentile = RInt(50)
          /\ result.table[j].percentile = RInt(50)
          /\ result.table[k].percentile = RInt(100)

(***************************************************************************)
(* Properties of the order of the returned tables.                         *)
(***************************************************************************)
\* the years of the groups that passed the min_sample_size filter
SurvivingYears == {agg[i].year : i \in 1..Len(agg)}
StatRows == 1..Len(result.year_stats)

\* C22: the returned table is ordered by year and, within a year, by rank;
\* year_stats holds one row per year with a surviving group, in ascending
\* order of year, and its n_groups is the number of table rows of the year.
C22_TableOrder ==
    Returned =>
        /\ \A i, j \in TableRows :
              i < j =>
                 \/ result.table[i].year < result.table[j].year
                 \/ /\ result.table[i].year = result.table[j].year
                    /\ result.table[i].rank <= result.table[j].rank
        /\ \A i, j \in StatRows :
              i < j => result.year_stats[i].year < result.year_stats[j].year
        /\ {result.year_stats[i].year : i \in StatRows} = SurvivingYears
        /\ SurvivingYears = TableYears(result.table)
        /\ \A i \in StatRows :
              result.year_stats[i].n_groups =
                 Cardinality({j \in TableRows :
                     result.table[j].year = result.year_stats[i].year})

\* two years are returned, and in one of them the course that comes later
\* by name ranks first
C22_Witness ==
    /\ Returned
    /\ Len(result.year_stats) = 2
    /\ \E i, j \in TableRows :
          /\ i < j
          /\ result.table[i].year = result.table[j].year
          /\ result.table[i].rank < result.table[j].rank
          /\ OrdOf(result.table[j].key[1]) < OrdOf(result.table[i].key[1])

(***************************************************************************)
(* Properties of the diagnostics.                                          *)
(***************************************************************************)
\* the fields a record must carry to be aggregated
RequiredFields ==
    IF params.fn = "employment_salary_tradeoff"
    THEN {"employment_rate_overall", "gross_monthly_median", "course_category"}
    ELSE {"year", params.salary_column} \cup Range(params.group_by)
\* the records of the file (no filter is set) that lack field c
Lacking(c) == {i \in 1..Len(csv) : IsNull(csv[i][c])}
Complete == {i \in 1..Len(csv) : \A c \in RequiredFields : ~IsNull(csv[i][c])}
\* the meta of a returned result counts the records left and, per required
\* field, the records that lack it
Diagnosed ==
    /\ result.meta.rows_used = Cardinality(Complete)
    /\ "missing_before_dropna" \in DOMAIN result.meta
    /\ \A c \in RequiredFields :
          result.meta.missing_before_dropna[c] = Cardinality(Lacking(c))

\* C23: records that lack a required value are left out of the aggregation,
\* the meta of employment_salary_tradeoff and of
\* compute_relative_performance_index holds the number of such records per
\* required field, and rows_used is the number of records left.
C23_Original == Returned => Diagnosed

\* the part of C23 that employment_salary_tradeoff meets
C23_TradeoffDiagnosed ==
    (Returned /\ params.fn = "employment_salary_tradeoff") => Diagnosed

\* the rows_used of compute_relative_performance_index
C23_IndexRowsUsed ==
    (Returned /\ params.fn # "employment_salary_tradeoff") =>
        result.meta.rows_used = Cardinality(Complete)

(***************************************************************************)
(* Properties of plot_salary_growth.                                       *)
(***************************************************************************)
GrowthRows == 1..Len(result.growth_df)
\* the records of the file inside the year range of the call
InRange == {i \in 1..Len(csv) : /\ csv[i].year >= params.year_start
                                /\ csv[i].year <= params.year_end}
\* the rows of university u inside the year range
RowsInRange(u) ==
    IntSum([i \in 1..Len(csv) |->
        IF i \in InRange /\ csv[i].university = u THEN csv[i].copies ELSE 0])
\* the (university, year) pairs that have data: a record in the year range
\* whose university holds at least MIN_RECORDS rows there
PairsWithData ==
    {<<csv[i].university, csv[i].year>> :
        i \in {i \in InRange : RowsInRange(csv[i].university) >= MIN_RECORDS}}
\* the average salary of the rows of a pair
PairSalary(u, y) ==
    LET of == {i \in 1..Len(csv) : csv[i].university = u /\ csv[i].year = y}
    IN RDiv(RInt(IntSum([i \in 1..Len(csv) |->
                IF i \in of THEN csv[i].copies * csv[i].gross_monthly_mean
                ELSE 0])),
            RInt(IntSum([i \in 1..Len(csv) |->
                IF i \in of THEN csv[i].copies ELSE 0])))
\* the growth rows of the university of row i in earlier years
Earlier(i) ==
    {j \in GrowthRows :
        /\ result.growth_df[j].university = result.growth_df[i].university
        /\ result.growth_df[j].year < result.growth_df[i].year}
\* the one of them of the latest year
Preceding(i) ==
    CHOOSE j \in Earlier(i) :
        \A k \in Earlier(i) :
            result.growth_df[k].year <= result.growth_df[j].year

\* C24: the growth table holds one row per (university, year) with data; the
\* row of a university's earliest year has growth_rate 0 and every later row
\* has growth_rate = 100 * (salary - previous) / previous, the previous
\* salary being the university's average of its preceding year in the data.
C24_GrowthRates ==
    (pc = "done" /\ params.fn = "plot_salary_growth") =>
        /\ {<<result.growth_df[i].university, result.growth_df[i].year>> :
               i \in GrowthRows} = PairsWithData
        /\ Len(result.growth_df) = Cardinality(PairsWithData)
        /\ \A i \in GrowthRows :
              LET row == result.growth_df[i]
              IN /\ row.salary = PairSalary(row.university, row.year)
                 /\ IF Earlier(i) = {}
                    THEN row.growth_rate = RZero
                    ELSE LET previous ==
                                 PairSalary(row.university,
                                     result.growth_df[Preceding(i)].year)
                         IN row.growth_rate =
                               RDiv(RMul(RInt(100),
                                         RSub(row.salary, previous)),
                                    previous)

\* a university with the salaries 1, 2, 1 in three years in a row: growth
\* rates 0, 100 and -50
C24_Witness ==
    /\ pc = "done" /\ params.fn = "plot_salary_growth"
    /\ \E i, j, k \in GrowthRows :
          /\ result.growth_df[i].year = 2020
          /\ result.growth_df[j].year = 2021
          /\ result.growth_df[k].year = 2022
          /\ result.growth_df[i].university = result.growth_df[j].university
          /\ result.growth_df[j].university = result.growth_df[k].university
          /\ result.growth_df[i].growth_rate = RZero
          /\ result.growth_df[j].growth_rate = RInt(100)
          /\ result.growth_df[k].growth_rate = RInt(-50)

\* a university with data in 2020 and 2022 only, beside one with data in
\* 2021: the growth of 2022 is measured from 2020
C24_WitnessGap ==
    /\ pc = "done" /\ params.fn = "plot_salary_growth"
    /\ Len(result.growth_df) = 3
    /\ \E i, j, k \in GrowthRows :
          /\ result.growth_df[i].year = 2020
          /\ result.growth_df[j].year = 2022
          /\ result.growth_df[k].year = 2021
          /\ result.growth_df[i].university = result.growth_df[j].university
          /\ result.growth_df[k].university # result.growth_df[i].university
          /\ result.growth_df[j].growth_rate = RInt(100)

(***************************************************************************)
(* Properties of the order of the phases.                                  *)
(***************************************************************************)
\* the groups of agg that belong to year y
GroupsOfYear(y) == {i \in 1..Len(agg) : agg[i].year = y}
\* the weight of group i in the baseline of its year
BaselineWeight(i) ==
    IF params.weight_mode = "sample_size" THEN agg[i].sample_size ELSE 1
\* the sum over the groups of year y of weight * f[i]
WeightedTotal(y, f) ==
    RSum([i \in 1..Len(agg) |->
        IF i \in GroupsOfYear(y) THEN RMul(RInt(BaselineWeight(i)), f[i])
        ELSE RZero])
\* b is the baseline of all groups of its year: the group count, the mean
\* and the square of the std, each times the sum of the weights
BaselineOfAllGroups(b) ==
    LET ones == [i \in 1..Len(agg) |-> RInt(1)]
        means == [i \in 1..Len(agg) |-> agg[i].mean_salary]
        squares == [i \in 1..Len(agg) |->
                       RSq(RSub(agg[i].mean_salary, b.year_mean))]
    IN /\ b.n_groups = Cardinality(GroupsOfYear(b.year))
       /\ b.n_groups >= 1
       /\ RMul(b.year_mean, WeightedTotal(b.year, ones))
             = WeightedTotal(b.year, means)
       /\ b.year_std.k = "root"
       /\ RMul(b.year_std.sq, WeightedTotal(b.year, ones))
             = WeightedTotal(b.year, squares)
\* agg holds every group of df that reaches min_sample_size, and no other
CompleteGroups ==
    {<<agg[i].year, agg[i].key>> : i \in 1..Len(agg)}
    = {<<Val(df[i].year), GroupKey(df[i], params.group_by)>> :
          i \in {i \in 1..Len(df) : LargeEnough(RpiCount(df[i]))}}
\* the baseline of the year of table row r
BaselineOf(r) == CHOOSE b \in Range(year_stats) : b.year = r.year
\* row r carries the baseline of its own year and a z_score taken from it
UsesOwnBaseline(r) ==
    /\ \E b \in Range(year_stats) : b.year = r.year
    /\ r.year_mean = BaselineOf(r).year_mean
    /\ r.year_std = BaselineOf(r).year_std
    /\ r.n_groups = BaselineOf(r).n_groups
    /\ IF BelowFloor(r.year_std) THEN r.z_score = RootZero
       ELSE /\ RMul(r.z_score.sq, r.year_std.sq)
                  = RSq(RSub(r.mean_salary, r.year_mean))
            /\ r.z_score.sgn = RSign(RSub(r.mean_salary, r.year_mean))
\* what each phase has produced, state by state
PhaseState ==
    /\ pc \in {"rpi_load_data", "rpi_check_required", "rpi_aggregate"} =>
          agg = <<>> /\ year_stats = <<>> /\ out = <<>>
    /\ pc \in {"rpi_year_stats", "rpi_normalize"} => out = <<>>
    /\ pc = "rpi_year_stats" => year_stats = <<>>
    /\ year_stats # <<>> =>
          /\ CompleteGroups
          /\ {year_stats[i].year : i \in 1..Len(year_stats)}
                = {agg[i].year : i \in 1..Len(agg)}
          /\ \A b \in Range(year_stats) : BaselineOfAllGroups(b)
    /\ out # <<>> =>
          /\ year_stats # <<>>
          /\ Len(out) = Len(agg)
          /\ \A r \in Range(out) : UsesOwnBaseline(r)
\* what each step may change
PhaseStep ==
    /\ agg' # agg => year_stats = <<>> /\ out = <<>>
                     /\ year_stats' = <<>> /\ out' = <<>>
    /\ year_stats' # year_stats => agg' = agg /\ out = <<>> /\ out' = <<>>
    /\ out' # out => agg' = agg /\ year_stats' = year_stats
                     /\ year_stats # <<>>

\* C25: the phases run in order: the groups are aggregated and filtered
\* first, then every year's baseline is computed from all of its groups,
\* and only then are z_scores, ranks and percentiles produced, each z_score
\* from the one baseline of its own year; no later phase changes what an
\* earlier one produced.
C25_PhaseOrder == [](PhaseState) /\ [][PhaseStep]_vars

\* two years, one of two groups, have been normalized, the baselines of
\* the years differ
C25_Witness ==
    /\ pc = "done" /\ params.fn = "compute_relative_performance_index"
    /\ Len(year_stats) = 2
    /\ year_stats[1].n_groups = 2 /\ year_stats[2].n_groups = 1
    /\ year_stats[1].year_mean # year_stats[2].year_mean
    /\ \E r \in Range(out) : r.z_score # RootZero

(***************************************************************************)
(* Properties of the independence of the periods.                          *)
(***************************************************************************)
\* the records of the file that belong to year y
RecordsOfYear(y) ==
    SelectSeq(csv, LAMBDA r : ~IsNull(r.year) /\ Val(r.year) = y)
\* the baselines and the table of the same call on the records rows
IndexOf(rows) ==
    LET loaded == load_data(columns, rows, params).rows
        groups == MinSampleFilter(RpiGroupBy(RpiDropNa(loaded, params), params),
                                  params.min_sample_size)
        stats == YearStats(groups, params.weight_mode)
    IN [year_stats |-> stats,
        table |-> SortYearRank(Ranked(Normalize(groups, stats)))]
\* the part of a returned table or year_stats that belongs to year y
PartOfYear(t, y) == SelectSeq(t, LAMBDA r : r.year = y)

\* C26: the baseline, z_scores, ranks and percentiles of the groups of a
\* period depend on the records of that period alone: they are those of the
\* same call on the records of the period without the others, so two files
\* that agree on the period give it the same rows.
C26_PeriodsIndependent ==
    Returned =>
        \A y \in TableYears(result.table) :
            /\ PartOfYear(result.table, y) = IndexOf(RecordsOfYear(y)).table
            /\ PartOfYear(result.year_stats, y)
                  = IndexOf(RecordsOfYear(y)).year_stats

\* a returned table of two years: two groups of different salaries in one,
\* a group in the other
C26_Witness ==
    /\ Returned
    /\ \E y, z \in TableYears(result.table) :
          /\ y # z
          /\ Len(PartOfYear(result.table, y)) = 2
          /\ Len(PartOfYear(result.table, z)) = 1
          /\ \E r \in Range(result.table) : r.year = y /\ r.rank = 2

(***************************************************************************)
(* Properties of the values the API wrappers pass on.                      *)
(***************************************************************************)
\* the integer a query parameter spells, if it is given and spells one
Spelled(value) ==
    IF IsNull(value) THEN Null ELSE IntOfText(Val(value))
\* a parameter that spells an integer of at least low reaches the engine
\* as that integer
ReachesUnchanged(value, low, passed) ==
    (~IsNull(Spelled(value)) /\ Val(Spelled(value)) >= low)
        => passed = Val(Spelled(value))

\* C27: a value that is valid for its parameter reaches the engine
\* unchanged: min_sample_size >= 0 (0 included, in both wrappers), top_n,
\* top_k and min_years >= 1, weight_mode none or sample_size.
C27_Original ==
    EngineCalled =>
        /\ ReachesUnchanged(request.min_sample_size, 0, params.min_sample_size)
        /\ IF request.api = "tradeoff_api"
           THEN ReachesUnchanged(request.top_n, 1, params.top_n)
           ELSE /\ ReachesUnchanged(request.top_k, 1, params.top_k)
                /\ ReachesUnchanged(request.min_years, 1, params.min_years)
                /\ (~IsNull(request.weight_mode)
                    /\ Val(request.weight_mode) \in {"none", "sample_size"})
                      => params.weight_mode = Val(request.weight_mode)

\* the part of C27 that holds: every valid value but the min_sample_size 0
\* given to relative_performance_api
C27_ValidButZero ==
    EngineCalled =>
        /\ ReachesUnchanged(request.min_sample_size,
              IF request.api = "tradeoff_api" THEN 0 ELSE 1,
              params.min_sample_size)
        /\ IF request.api = "tradeoff_api"
           THEN ReachesUnchanged(request.top_n, 1, params.top_n)
           ELSE /\ ReachesUnchanged(request.top_k, 1, params.top_k)
                /\ ReachesUnchanged(request.min_years, 1, params.min_years)
                /\ (~IsNull(request.weight_mode)
                    /\ Val(request.weight_mode) \in {"none", "sample_size"})
                      => params.weight_mode = Val(request.weight_mode)

(***************************************************************************)
(* Properties of rank and percentile together.                             *)
(***************************************************************************)
\* C28: within a year of the returned table, rank(a) < rank(b) iff
\* percentile(a) > percentile(b), and rank(a) = rank(b) iff percentile(a) =
\* percentile(b) iff z_score(a) = z_score(b).
C28_RankPercentileConsistent ==
    Returned =>
        \A a \in TableRows : \A b \in SameYear(a) :
            /\ result.table[a].rank < result.table[b].rank
                  <=> RLt(result.table[b].percentile,
                          result.table[a].percentile)
            /\ result.table[a].rank = result.table[b].rank
                  <=> result.table[a].percentile = result.table[b].percentile
            /\ result.table[a].rank = result.table[b].rank
                  <=> result.table[a].z_score = result.table[b].z_score

\* a year of three groups, one above two that are tied: ranks 1, 2, 2
C28_Witness ==
    /\ Returned
    /\ \E a, b, c \in TableRows :
          /\ b \in SameYear(a) /\ c \in SameYear(a) /\ b # c
          /\ result.table[a].rank = 1
          /\ result.table[b].rank = 2 /\ result.table[c].rank = 2
          /\ RLt(result.table[b].percentile, result.table[a].percentile)
          /\ result.table[b].percentile = result.table[c].percentile

====
